---- MODULE Spec2Model ----
(***************************************************************************)
(* A model of the particle engine's attribute-buffer lifecycle and emitter *)
(* simulation core: CompositeTypedArray, ShaderAttribute, Emitter, Group.  *)
(*                                                                         *)
(* Numbers.  JavaScript numbers that can be fractional (ages, time steps,  *)
(* the activation cursor, everything stored in the params channel) are     *)
(* held as integers in units of 1/Scale: the real x is the integer         *)
(* x * Scale.  Slot counts, offsets and array lengths are plain integers.  *)
(* Values drawn at random by the assign* functions and stored in the       *)
(* other channels are held as sample identifiers (see Sample).             *)
(***************************************************************************)
EXTENDS Integers, Sequences, FiniteSets, TLC

\* ------------------------------------------------------------------ bounds
\* Number of Emitter objects that exist.
MaxEmitters == 3
\* Largest particleCount an emitter is constructed with.
MaxCount == 2
\* Number of calls made by the user in one run: adding and removing on one
\* group, on two groups, the pool, the simulation.
MaxCalls == 5
MaxGroupCalls == 3
MaxPoolCalls == 4
MaxTickCalls == 4
\* Number of calls in one run of a single emitter, of the emitters' lives, and
\* of the shader flags.
MaxRunCalls == 9
MaxLifeCalls == 5
MaxFlagCalls == 5
\* Largest numEmitters passed to triggerPoolEmitter.
MaxTrigger == 2
\* Number of calls in a run with property setters.
MaxSetterCalls == 5
\* Number of calls in a run with setters of values over lifetime, and the
\* length of the longest array passed to them.
MaxCurveCalls == 2
MaxCurveLen == 5
\* Number of calls in a run of the emission rates.
MaxRateCalls == 5
\* Number of calls in a run of the pool with removals.
MaxDetachCalls == 4
\* Number of calls in a run of the emitter's switches and resets.
MaxResetCalls == 5
\* The position vector passed to triggerPoolEmitter and to the setter of
\* position.value, as the value of each of its components.
PositionStep == 1000

\* ------------------------------------------- values fixed by the program
\* ComponentSize.v3 and ComponentSize.v4.
V3 == 3
V4 == 4
\* Emitter constructor: duration defaults to -1 (no duration).
NoDuration == -1

\* ----------------------------------------------------------------- helpers
Min(a, b) == IF a < b THEN a ELSE b
Max(a, b) == IF a > b THEN a ELSE b

\* An optional reference: <<>> is null / undefined, <<x>> is the object x.
Null == <<>>
Some(x) == <<x>>
IsNull(o) == o = <<>>
The(o) == o[1]

RECURSIVE Gcd(_, _)
Gcd(a, b) == IF b = 0 THEN a ELSE Gcd(b, a % b)
Lcm(a, b) == (a * b) \div Gcd(a, b)
RECURSIVE LcmUpTo(_)
LcmUpTo(n) == IF n <= 1 THEN 1 ELSE Lcm(n, LcmUpTo(n - 1))

\* Reals are stored in units of 1/Scale.  Scale is a multiple of every
\* possible activation count, so that dt / activationCount is exact.
Scale == 2 * LcmUpTo(MaxCount + 1)

\* x | 0 on a scaled non-negative or negative real: truncation toward zero,
\* result a plain integer.
Trunc(xs) == IF xs >= 0 THEN xs \div Scale ELSE -((-xs) \div Scale)

Emitters == 1..MaxEmitters
Groups == {"g1", "g2"}
NoGroup == "none"

\* Group constructor: the attribute map, in key order, with component sizes.
AttributeKeys ==
    <<"position", "acceleration", "velocity", "rotation", "rotationCenter",
      "params", "size", "angle", "color", "opacity">>
Channels == {AttributeKeys[i] : i \in 1..Len(AttributeKeys)}
ComponentSize(c) ==
    IF c \in {"position", "velocity", "rotationCenter"} THEN V3 ELSE V4

\* ------------------------------------------------------- JavaScript values
\* NaN (also what reading an array out of its bounds, undefined, turns into
\* in arithmetic and when stored in a Float32Array).  No real of the model
\* is this small.
NaN == 0 - (1000 * Scale)
IsNaN(x) == x = NaN
Add(x, y) == IF IsNaN(x) \/ IsNaN(y) THEN NaN ELSE x + y
Sub(x, y) == IF IsNaN(x) \/ IsNaN(y) THEN NaN ELSE x - y
\* x >= y, x <= y, x === y, x != y on numbers; every comparison with NaN is
\* false except !=.
Ge(x, y) == ~IsNaN(x) /\ ~IsNaN(y) /\ x >= y
Le(x, y) == ~IsNaN(x) /\ ~IsNaN(y) /\ x <= y
StrictEq(x, y) == ~IsNaN(x) /\ ~IsNaN(y) /\ x = y
NotEq(x, y) == ~StrictEq(x, y)
\* Math.abs
Abs(x) == IF IsNaN(x) THEN NaN ELSE IF x < 0 THEN -x ELSE x

\* ------------------------------------------------- typed arrays and memory
\* mem maps the identity of each allocated array buffer to its elements.  A
\* TypedArray is a view [buf, len] of the first len elements of a buffer
\* (subarray(0, n) shares the buffer; new Float32Array(n) allocates one).
Zeros(n) == [i \in 1..n |-> 0]
FreshBuf(mem) ==
    CHOOSE k \in 0..Cardinality(DOMAIN mem) :
        k \notin DOMAIN mem /\ \A j \in 0..(k - 1) : j \in DOMAIN mem
ViewOf(ta) == [buf |-> ta.buf, len |-> ta.len]
Elements(mem, view) == SubSeq(mem[view.buf], 1, view.len)

\* array[p] for a scaled element position ps: a non-integer or out-of-range
\* position reads undefined.
ArrGet(mem, view, ps) ==
    IF ps % Scale = 0 /\ ps >= 0 /\ ps \div Scale < view.len
    THEN mem[view.buf][(ps \div Scale) + 1]
    ELSE NaN
\* array[p] = v: a write to a non-integer or out-of-range position is ignored.
ArrSet(mem, view, ps, v) ==
    IF ps % Scale = 0 /\ ps >= 0 /\ ps \div Scale < view.len
    THEN [mem EXCEPT ![view.buf][(ps \div Scale) + 1] = v]
    ELSE mem

\* --------------------------------------------------- CompositeTypedArray
\* A CompositeTypedArray is [buf, len, size]: its _array is the view
\* [buf, len], size is its _size field.  Every operation takes and returns
\* st = [ta, mem].
NewCompositeTypedArray(mem, size, componentSize) ==
    LET b == FreshBuf(mem)
    IN  [ta |-> [buf |-> b, len |-> size * componentSize, size |-> size],
         mem |-> (b :> Zeros(size * componentSize)) @@ mem]

shrink(st, size) ==
    [st EXCEPT !.ta.len = Min(size, st.ta.len), !.ta.size = size]

grow(st, size) ==
    LET b == FreshBuf(st.mem)
        existingArray == Elements(st.mem, ViewOf(st.ta))
        newArray == [i \in 1..size |->
                        IF i <= Len(existingArray) THEN existingArray[i] ELSE 0]
    IN  [ta |-> [buf |-> b, len |-> size, size |-> size],
         mem |-> (b :> newArray) @@ st.mem]

setSize(st, slots, componentSize) ==
    LET currentArraySize == st.ta.len
        size == slots * componentSize
    IN  IF size < currentArraySize THEN shrink(st, size)
        ELSE IF size > currentArraySize THEN grow(st, size)
        ELSE st

setFromArray(st, index, array) ==
    LET newSize == index + Len(array)
        st1 == IF newSize > st.ta.len THEN grow(st, newSize)
               ELSE IF newSize < st.ta.len THEN shrink(st, newSize)
               ELSE st
    IN  [st1 EXCEPT !.mem[st1.ta.buf] =
            [i \in 1..Len(@) |->
                IF i > index /\ i <= index + Len(array) THEN array[i - index]
                ELSE @[i]]]

\* A variant of splice that drops the array's last elements, as many as the
\* range holds, and moves nothing.
splice_Truncate(st, startSlot, endSlot, componentSize) ==
    shrink(st, st.ta.len - (endSlot - startSlot) * componentSize)

\* CompositeTypedArray.splice(start, end)
splice(st, startSlot, endSlot, componentSize) ==
    LET start == startSlot * componentSize
        end == endSlot * componentSize
        array == Elements(st.mem, ViewOf(st.ta))
        size == Len(array)
        data == IF start >= end THEN array
                ELSE SubSeq(array, 1, Min(start, size)) \o SubSeq(array, end + 1, size)
    IN  setFromArray(st, 0, data)

\* setVec3Components / setVec4Components / setNumber: values[k] goes to
\* element index * componentSize + (k - 1); indexS is the scaled slot index.
setComponents(st, indexS, componentSize, values) ==
    LET W[k \in 0..Len(values)] ==
            IF k = 0 THEN st.mem
            ELSE ArrSet(W[k - 1], ViewOf(st.ta),
                        indexS * componentSize + (k - 1) * Scale, values[k])
    IN  [st EXCEPT !.mem = W[Len(values)]]


\* --------------------------------------------------------- ShaderAttribute
\* Number.POSITIVE_INFINITY and Number.NEGATIVE_INFINITY, as scaled reals
\* larger than any other real of the model.
Infinity == 2000 * Scale
NegInfinity == 0 - Infinity
\* x * n for a count n > 0.
Times(x, n) == IF x = Infinity \/ x = NegInfinity \/ IsNaN(x) THEN x ELSE x * n

DynamicDrawUsage == "DynamicDrawUsage"
StaticDrawUsage == "StaticDrawUsage"

\* A ShaderAttribute is [typedArray, bufferAttribute, updateMin, updateMax,
\* dynamicBuffer]; its operations take and return sa = [a, mem], mem being
\* the memory the channel's arrays live in.  A BufferAttribute is [array,
\* usage, updateRange, needsUpdate].
NewShaderAttribute(dynamicBuffer) ==
    [typedArray |-> Null, bufferAttribute |-> Null,
     updateMin |-> 0, updateMax |-> 0, dynamicBuffer |-> dynamicBuffer]

getLength(a) == IF IsNull(a.typedArray) THEN 0 ELSE The(a.typedArray).len

\* Lift a CompositeTypedArray operation result st = [ta, mem] into sa.
WithTypedArray(sa, st) ==
    [a |-> [sa.a EXCEPT !.typedArray = Some(st.ta)], mem |-> st.mem]
TypedArrayOf(sa) == [ta |-> The(sa.a.typedArray), mem |-> sa.mem]

ensureTypedArray(sa, size, componentSize) ==
    IF ~IsNull(sa.a.typedArray) /\ The(sa.a.typedArray).size = size * componentSize
    THEN sa
    ELSE IF ~IsNull(sa.a.typedArray) /\ The(sa.a.typedArray).size # size
    THEN WithTypedArray(sa, setSize(TypedArrayOf(sa), size, componentSize))
    ELSE IF IsNull(sa.a.typedArray)
    THEN WithTypedArray(sa, NewCompositeTypedArray(sa.mem, size, componentSize))
    ELSE sa

createBufferAttribute(sa, size, componentSize) ==
    LET sa1 == ensureTypedArray(sa, size, componentSize)
        array == ViewOf(The(sa1.a.typedArray))
    IN  IF ~IsNull(sa1.a.bufferAttribute)
        THEN [sa1 EXCEPT !.a.bufferAttribute =
                Some([The(@) EXCEPT !.array = array, !.needsUpdate = TRUE])]
        ELSE [sa1 EXCEPT !.a.bufferAttribute =
                Some([array |-> array,
                      usage |-> IF sa1.a.dynamicBuffer THEN DynamicDrawUsage
                                ELSE StaticDrawUsage,
                      updateRange |-> [offset |-> 0, count |-> -Scale],
                      needsUpdate |-> FALSE])]

forceUpdateAll(sa) ==
    [sa EXCEPT !.a.bufferAttribute =
        Some([array |-> ViewOf(The(sa.a.typedArray)),
              usage |-> StaticDrawUsage,
              updateRange |-> [offset |-> 0, count |-> -Scale],
              needsUpdate |-> TRUE])]

attrSplice(sa, start, end, componentSize) ==
    forceUpdateAll(WithTypedArray(sa, splice(TypedArrayOf(sa), start, end, componentSize)))

\* A variant of setUpdateRange that takes the range it is given and forgets
\* the range the channel has gathered so far.
setUpdateRange_Replace(a, min, max, componentSize) ==
    [a EXCEPT !.updateMin = Times(min, componentSize),
              !.updateMax = Times(max, componentSize)]

\* ShaderAttribute.setUpdateRange(min, max)
setUpdateRange(a, min, max, componentSize) ==
    [a EXCEPT !.updateMin = Min(Times(min, componentSize), a.updateMin * componentSize),
              !.updateMax = Max(Times(max, componentSize), a.updateMax * componentSize)]

flagUpdate(a, componentSize) ==
    [a EXCEPT !.bufferAttribute =
        Some([The(@) EXCEPT
            !.updateRange =
                [offset |-> a.updateMin,
                 count |-> Min(a.updateMax - a.updateMin + componentSize * Scale,
                               The(a.typedArray).len * Scale)],
            !.needsUpdate = TRUE])]

resetUpdateRange(a) == [a EXCEPT !.updateMin = 0, !.updateMax = 0]

resetDynamic(a) ==
    [a EXCEPT !.bufferAttribute =
        Some([The(@) EXCEPT !.usage = IF a.dynamicBuffer THEN DynamicDrawUsage
                                      ELSE StaticDrawUsage])]


\* ----------------------------------------------------------------- Emitter
\* Math.random() draws, as scaled reals in [0, 1).
RandomDraws == {0, Scale \div 2}
\* The draws that can make a difference for a given spread.
DrawsFor(spread) == IF spread = 0 THEN {Scale \div 2} ELSE RandomDraws
\* utils.randomFloat, for the draw r.
randomFloat(base, spread, r) == base + (spread * (r - (Scale \div 2))) \div Scale

\* The value an assign* function draws for component j of the slot that is
\* the emitter's k-th: a sample identifier, never 0.
Sample(e, k, j) == 100 * e + 10 * k + j

\* ---------------------------------------------------- values over lifetime
\* An argument that can be a number, an array of numbers or left out.
NumberArg(x) == [kind |-> "number", items |-> <<x>>]
ArrayArg(items) == [kind |-> "array", items |-> items]
NoArg == [kind |-> "undefined", items |-> <<>>]

\* The length of the values over the lifetime of a particle.
valueOverLifetimeLength == 4

\* An ensureArrayTypedArg that took the default whatever it was given.
ensureArrayTypedArg_Default(arg, defaultValue) == NumberArg(defaultValue)

\* utils.ensureArrayTypedArg(arg, 'number', defaultValue).
ensureArrayTypedArg(arg, defaultValue) ==
    IF arg.kind = "undefined" THEN NumberArg(defaultValue) ELSE arg

\* MathUtils.clamp and utils.lerpTypeAgnostic on numbers, the delta being
\* num / den.
clamp(value, min, max) == Max(min, Min(max, value))
lerp(start, end, num, den) == start + ((end - start) * num) \div den

\* An interpolateArray that left out the last element.
interpolateArray_NoPush(srcArray, newLength) ==
    [i \in 1..(newLength - 1) |-> srcArray[1]]

\* utils.interpolateArray(srcArray, newLength): the first element, the
\* entries 1 .. newLength - 2 interpolated, then the last element pushed.
interpolateArray(srcArray, newLength) ==
    LET sourceLength == Len(srcArray)
        Before(i) == (i * (sourceLength - 1)) \div (newLength - 1)
        Rest(i) == (i * (sourceLength - 1)) % (newLength - 1)
        After(i) == IF Rest(i) = 0 THEN Before(i) ELSE Before(i) + 1
    IN  <<srcArray[1]>>
        \o [i \in 1..(newLength - 2) |->
               lerp(srcArray[Before(i) + 1], srcArray[After(i) + 1],
                    Rest(i), newLength - 1)]
        \o <<srcArray[sourceLength]>>

\* utils.ensureValueAndSpreadOverLifetimeCompliance; a number is put into an
\* array of one element first, which is what items holds already.
ensureValueAndSpreadOverLifetimeCompliance(value, spread, minLength, maxLength) ==
    LET min == IF minLength = 0 THEN 3 ELSE minLength
        max == IF maxLength = 0 THEN 3 ELSE maxLength
        desiredLength == Max(clamp(Len(value.items), min, max),
                             clamp(Len(spread.items), min, max))
    IN  [value |-> IF Len(value.items) # desiredLength
                   THEN interpolateArray(value.items, desiredLength)
                   ELSE value.items,
         spread |-> IF Len(spread.items) # desiredLength
                    THEN interpolateArray(spread.items, desiredLength)
                    ELSE spread.items]

\* The constructor of EmitterOpacity and EmitterSize.
NewOverLifetime(o) ==
    ensureValueAndSpreadOverLifetimeCompliance(
        ensureArrayTypedArg(o.value, Scale), ensureArrayTypedArg(o.spread, 0),
        valueOverLifetimeLength, valueOverLifetimeLength)

\* new Emitter(options); constructed is FALSE for an object not yet created.
\* resetFlags, updateFlags and updateCounts are total here: a key the code
\* leaves out reads undefined there, which no test "=== true" accepts.
NewEmitter(o) ==
    [constructed |-> TRUE,
     particleCount |-> o.particleCount,
     duration |-> o.duration,
     isStatic |-> o.isStatic,
     activeMultiplier |-> o.activeMultiplier,
     direction |-> o.direction,
     maxAge |-> o.maxAge,
     wiggle |-> o.wiggle,
     angle |-> o.angle,
     rotation |-> o.rotation,
     type |-> o.type,
     position |-> o.position,
     velocity |-> o.velocity,
     opacity |-> NewOverLifetime(o.opacity),
     size |-> NewOverLifetime(o.size),
     alive |-> o.alive,
     particlesPerSecond |-> 0,
     activationIndex |-> 0,
     attributeOffset |-> 0,
     attributeEnd |-> 0,
     activationEnd |-> 0,
     age |-> 0,
     activeParticleCount |-> 0,
     group |-> NoGroup,
     attributes |-> NoGroup,
     paramsArray |-> Null,
     resetFlags |-> [c \in Channels |->
                       CASE c = "position" -> o.position.randomize
                         [] c = "velocity" -> o.velocity.randomize
                         [] OTHER -> FALSE],
     updateFlags |-> [c \in Channels |-> FALSE],
     updateCounts |-> [c \in Channels |-> 0],
     bufferUpdateRanges |-> [c \in {} |-> 0],
     attributeCount |-> 0]

\* Emitter option defaults (Emitter constructor, EmitterMaxAge, EmitterWiggle,
\* EmitterAngle, EmitterRotation, EmitterPosition).  angle.value and
\* angle.spread stand for the largest entry of the over-lifetime arrays,
\* position.value and position.spread for a vector with three equal
\* components; type is the distribution of position, velocity and
\* acceleration.
DefaultOptions ==
    [particleCount |-> 100, duration |-> NoDuration * Scale, isStatic |-> FALSE,
     activeMultiplier |-> Scale, direction |-> 1,
     maxAge |-> [value |-> 2 * Scale, spread |-> 0],
     wiggle |-> [value |-> 0, spread |-> 0],
     angle |-> [value |-> 0, spread |-> 0],
     rotation |-> [angle |-> 0, angleSpread |-> 0],
     type |-> "box",
     position |-> [value |-> 0, spread |-> 0, randomize |-> FALSE],
     velocity |-> [randomize |-> FALSE],
     opacity |-> [value |-> NoArg, spread |-> NoArg],
     size |-> [value |-> NoArg, spread |-> NoArg],
     alive |-> TRUE]

NotConstructed == [NewEmitter(DefaultOptions) EXCEPT !.constructed = FALSE]

setBufferUpdateRanges(m, keys) ==
    [m EXCEPT !.attributeCount = Len(keys),
              !.bufferUpdateRanges =
                  [c \in {keys[i] : i \in 1..Len(keys)} |->
                      [min |-> Infinity, max |-> NegInfinity]]]

\* count / seconds as a scaled real (x / 0 is Infinity in JavaScript).
PerSecond(count, seconds) ==
    IF seconds = 0 THEN Infinity ELSE (count * Scale * Scale) \div seconds

\* A calculatePPSValue that took no account of the duration.
calculatePPSValue_NoDuration(m, groupMaxAge) ==
    [m EXCEPT !.particlesPerSecond = PerSecond(m.particleCount, groupMaxAge)]

calculatePPSValue(m, groupMaxAge) ==
    IF m.duration # NoDuration * Scale
    THEN [m EXCEPT !.particlesPerSecond =
            PerSecond(m.particleCount,
                      IF groupMaxAge < m.duration THEN groupMaxAge ELSE m.duration)]
    ELSE [m EXCEPT !.particlesPerSecond = PerSecond(m.particleCount, groupMaxAge)]

setAttributeOffset(m, startIndex) ==
    [m EXCEPT !.attributeOffset = startIndex,
              !.activationIndex = startIndex * Scale,
              !.activationEnd = startIndex + m.particleCount]

\* The assign* functions write through this._attributes, i.e. the group's
\* attribute map gb = [channel |-> [a, mem]].  e is the emitter's identity,
\* m its record, indexS the scaled slot index.
LocalSlot(m, indexS) == Trunc(indexS) - m.attributeOffset

SetVec(gb, c, indexS, values) ==
    [gb EXCEPT ![c] =
        WithTypedArray(@, setComponents(TypedArrayOf(@), indexS, ComponentSize(c), values))]

Samples(e, m, indexS, n) == [j \in 1..n |-> Sample(e, LocalSlot(m, indexS), j)]

\* The position drawn for a slot is the sample of the slot, displaced by
\* position.value.
assignPositionValue(gb, e, m, indexS) ==
    SetVec(gb, "position", indexS,
           [j \in 1..3 |-> Sample(e, LocalSlot(m, indexS), j) + m.position.value])

\* The direction randomDirectionVector3OnSphere (OnDisc) computes for a slot:
\* the position the position buffer holds for it, seen from position.value.
ForceDirection(gb, m, indexS) ==
    [j \in 1..3 |->
        Sub(ArrGet(gb["position"].mem, ViewOf(The(gb["position"].a.typedArray)),
                   indexS * 3 + (j - 1) * Scale),
            m.position.value)]

assignForceValue(gb, e, m, indexS, attrName) ==
    LET gb1 == SetVec(gb, attrName, indexS,
                      IF m.type = "box" THEN Samples(e, m, indexS, 3)
                      ELSE ForceDirection(gb, m, indexS))
    IN  IF attrName = "acceleration"
        THEN [gb1 EXCEPT !["acceleration"].mem =
                ArrSet(@, ViewOf(The(gb1["acceleration"].a.typedArray)),
                       indexS * 4 + 3 * Scale, Sample(e, LocalSlot(m, indexS), 4))]
        ELSE gb1

assignAbsLifetimeValue(gb, e, m, indexS, propName) ==
    SetVec(gb, propName, indexS, Samples(e, m, indexS, 4))

assignAngleValue(gb, e, m, indexS) ==
    SetVec(gb, "angle", indexS, Samples(e, m, indexS, 4))

\* rnd = [maxAge, wiggle]: the two Math.random() draws.
assignParamsValue(gb, e, m, indexS, rnd) ==
    SetVec(gb, "params", indexS,
           <<IF m.isStatic THEN Scale ELSE 0,
             0,
             Abs(randomFloat(m.maxAge.value, m.maxAge.spread, rnd.maxAge)),
             randomFloat(m.wiggle.value, m.wiggle.spread, rnd.wiggle)>>)

assignRotationValue(gb, e, m, indexS) ==
    SetVec(SetVec(gb, "rotation", indexS, Samples(e, m, indexS, 3)),
           "rotationCenter", indexS, Samples(e, m, indexS, 3))

assignColorValue(gb, e, m, indexS) ==
    SetVec(gb, "color", indexS, Samples(e, m, indexS, 4))

assignValue(gb, e, m, prop, indexS, rnd) ==
    CASE prop = "position" -> assignPositionValue(gb, e, m, indexS)
      [] prop \in {"velocity", "acceleration"} -> assignForceValue(gb, e, m, indexS, prop)
      [] prop \in {"size", "opacity"} -> assignAbsLifetimeValue(gb, e, m, indexS, prop)
      [] prop = "angle" -> assignAngleValue(gb, e, m, indexS)
      [] prop = "params" -> assignParamsValue(gb, e, m, indexS, rnd)
      [] prop = "rotation" -> assignRotationValue(gb, e, m, indexS)
      [] prop = "color" -> assignColorValue(gb, e, m, indexS)
      [] OTHER -> gb

enable(m) == [m EXCEPT !.alive = TRUE]
disable(m) == [m EXCEPT !.alive = FALSE]

onRemove(m) ==
    [m EXCEPT !.particlesPerSecond = 0,
              !.attributeOffset = 0,
              !.activationIndex = 0,
              !.activeParticleCount = 0,
              !.group = NoGroup,
              !.attributes = NoGroup,
              !.paramsArray = Null,
              !.age = 0]

\* Emitter.reset(), force left at its default false.
reset(m) == [m EXCEPT !.age = 0, !.alive = FALSE]

\* x * y on scaled reals.
Mul(x, y) ==
    IF IsNaN(x) \/ IsNaN(y) THEN NaN
    ELSE IF x = Infinity \/ y = Infinity THEN Infinity
    ELSE (x * y) \div Scale

\* The simulation functions take and return s = [m, gb]: the emitter's record
\* and its group's attribute map.
updateAttributeUpdateRange(m, attr, iS) ==
    [m EXCEPT !.bufferUpdateRanges[attr] =
        [min |-> Min(iS, @.min), max |-> Max(iS, @.max)]]

decrementParticleCount(m) == [m EXCEPT !.activeParticleCount = @ - 1]
incrementParticleCount(m) == [m EXCEPT !.activeParticleCount = @ + 1]

\* The body of the loop of _resetParticle were it to leave the update range
\* of the channel alone.
ResetKey_NoRange(s, e, key, indexS, rnd) ==
    IF s.m.resetFlags[key] \/ s.m.updateFlags[key]
    THEN [s EXCEPT !.gb = assignValue(s.gb, e, s.m, key, indexS, rnd)]
    ELSE s

\* The body of the loop of _resetParticle, for one attribute key.
ResetKey(s, e, key, indexS, rnd) ==
    LET updateFlag == s.m.updateFlags[key]
    IN  IF s.m.resetFlags[key] \/ updateFlag
        THEN LET gb1 == assignValue(s.gb, e, s.m, key, indexS, rnd)
                 m1 == updateAttributeUpdateRange(s.m, key, indexS)
                 m2 == IF updateFlag /\ m1.updateCounts[key] = m1.particleCount
                       THEN [m1 EXCEPT !.updateFlags[key] = FALSE,
                                       !.updateCounts[key] = 0]
                       ELSE IF updateFlag
                       THEN [m1 EXCEPT !.updateCounts[key] = @ + 1]
                       ELSE m1
             IN  [m |-> m2, gb |-> gb1]
        ELSE s

resetParticle(s, e, indexS, rnd) ==
    LET R[i \in 0..s.m.attributeCount] ==
            IF i = 0 THEN s
            ELSE ResetKey(R[i - 1], e, AttributeKeys[s.m.attributeCount - i + 1],
                          indexS, rnd)
    IN  R[s.m.attributeCount]

\* The body of the loop of _checkParticleAges, for slot i.
CheckParticleAge(s, i, params, dt) ==
    LET index == i * 4 * Scale
        mem == s.gb["params"].mem
        alive == ArrGet(mem, params, index)
        age == ArrGet(mem, params, index + Scale)
        maxAge == ArrGet(mem, params, index + 2 * Scale)
        aged == IF s.m.direction = 1 THEN Add(age, dt) ELSE Sub(age, dt)
        dies == IF s.m.direction = 1 THEN Ge(aged, maxAge) ELSE Le(aged, 0)
        age1 == IF ~dies THEN aged ELSE IF s.m.direction = 1 THEN 0 ELSE maxAge
        alive1 == IF dies THEN 0 ELSE alive
        m1 == IF dies THEN decrementParticleCount(s.m) ELSE s.m
        mem1 == ArrSet(ArrSet(mem, params, index, alive1), params, index + Scale, age1)
    IN  IF StrictEq(alive, 0) THEN s
        ELSE [m |-> updateAttributeUpdateRange(m1, "params", i * Scale),
              gb |-> [s.gb EXCEPT !["params"].mem = mem1]]

checkParticleAges(s, start, end, params, dt) ==
    LET K[i \in start..end] ==
            IF i = end THEN s ELSE CheckParticleAge(K[i + 1], i, params, dt)
    IN  IF end <= start THEN s ELSE K[start]

\* The end of the body of the loop of _activateParticles, s being the state
\* _resetParticle leaves: the particle's age is set and its slot flagged.
PlaceParticle(s, iS, activationStart, params, dtPerParticle) ==
    LET index == iS * 4
        mem == s.gb["params"].mem
        dtValue == dtPerParticle * ((iS - activationStart) \div Scale)
        age == IF s.m.direction = -1
               THEN Sub(ArrGet(mem, params, index + 2 * Scale), dtValue)
               ELSE dtValue
    IN  [m |-> updateAttributeUpdateRange(s.m, "params", iS),
         gb |-> [s.gb EXCEPT !["params"].mem = ArrSet(mem, params, index + Scale, age)]]

\* The body of the loop of _activateParticles, for the scaled index iS.
ActivateParticle(s, e, iS, activationStart, params, dtPerParticle, rnd) ==
    IF NotEq(ArrGet(s.gb["params"].mem, params, iS * 4), 0) /\ s.m.particleCount # 1
    THEN s
    ELSE PlaceParticle(
             resetParticle(
                 [m |-> incrementParticleCount(s.m),
                  gb |-> [s.gb EXCEPT !["params"].mem = ArrSet(@, params, iS * 4, Scale)]],
                 e, iS, rnd),
             iS, activationStart, params, dtPerParticle)

RECURSIVE activateParticles(_, _, _, _, _, _, _, _)
activateParticles(s, e, iS, activationStart, activationEnd, params, dtPerParticle, rnd) ==
    IF iS >= activationEnd THEN s
    ELSE activateParticles(
             ActivateParticle(s, e, iS, activationStart, params, dtPerParticle, rnd),
             e, iS + Scale, activationStart, activationEnd, params, dtPerParticle, rnd)

\* The end of Emitter.tick: the activation window moves forward and the
\* emitter ages.
\* The activation window moved forward were the cursor never to go back to
\* the emitter's first slot.
MoveWindow_NoWrap(s, ppsDt, dt) ==
    [s EXCEPT !.m.activationIndex = @ + ppsDt, !.m.age = @ + dt]

\* Emitter.tick: the activation window moves forward and the emitter ages.
MoveWindow(s, ppsDt, dt) ==
    LET start == s.m.attributeOffset
        end == start + s.m.particleCount
        moved == s.m.activationIndex + ppsDt
    IN  [s EXCEPT !.m.activationIndex =
                      IF moved > end * Scale THEN start * Scale ELSE moved,
                  !.m.age = @ + dt]

\* Emitter.tick from the test of _alive on were the duration never to end the
\* emitter's life.
Emit_Endless(s, e, dt, ppsDt, rnd) ==
    LET activationIndex == s.m.activationIndex
        activationStart == IF s.m.particleCount = 1 THEN activationIndex
                           ELSE Trunc(activationIndex) * Scale
        activationEnd == Min(activationStart + ppsDt, s.m.activationEnd * Scale)
        activationCount == Trunc(activationEnd - s.m.activationIndex)
        dtPerParticle == IF activationCount > 0 THEN dt \div activationCount ELSE 0
    IN  IF ~s.m.alive THEN [s EXCEPT !.m.age = 0]
        ELSE MoveWindow(
                 activateParticles(s, e, activationStart, activationStart, activationEnd,
                                   The(s.m.paramsArray), dtPerParticle, rnd),
                 ppsDt, dt)

\* Emitter.tick from the test of _alive on, s being the state
\* _checkParticleAges leaves.
Emit(s, e, dt, ppsDt, rnd) ==
    LET activationIndex == s.m.activationIndex
        activationStart == IF s.m.particleCount = 1 THEN activationIndex
                           ELSE Trunc(activationIndex) * Scale
        activationEnd == Min(activationStart + ppsDt, s.m.activationEnd * Scale)
        activationCount == Trunc(activationEnd - s.m.activationIndex)
        dtPerParticle == IF activationCount > 0 THEN dt \div activationCount ELSE 0
    IN  IF ~s.m.alive THEN [s EXCEPT !.m.age = 0]
        ELSE IF s.m.duration # NoDuration * Scale /\ s.m.age > s.m.duration
        THEN [s EXCEPT !.m.alive = FALSE, !.m.age = 0]
        ELSE MoveWindow(
                 activateParticles(s, e, activationStart, activationStart, activationEnd,
                                   The(s.m.paramsArray), dtPerParticle, rnd),
                 ppsDt, dt)

\* Emitter.tick caches the params array on its first call.
CacheParamsArray(s) ==
    IF IsNull(s.m.paramsArray)
    THEN [s EXCEPT !.m.paramsArray = Some(ViewOf(The(s.gb["params"].a.typedArray)))]
    ELSE s

\* Emitter.tick of a non-static emitter whose params array is cached.
Simulate(s, e, dt, rnd) ==
    Emit(checkParticleAges(s, s.m.attributeOffset,
                           s.m.attributeOffset + s.m.particleCount,
                           The(s.m.paramsArray), dt),
         e, dt, Mul(Mul(s.m.particlesPerSecond, s.m.activeMultiplier), dt), rnd)

\* Emitter.tick(dt)
tick(s, e, dt, rnd) ==
    IF s.m.isStatic THEN s ELSE Simulate(CacheParamsArray(s), e, dt, rnd)


\* ------------------------------------------------------------------- Group
VARIABLES
    em,          \* Emitter objects, by identity
    grp,         \* Group objects: emitter list, pool, counters, flags, uniforms
    attributes,  \* per group and channel: the ShaderAttribute and its memory
    timers,      \* pending setTimeout callbacks, in the order they were set
    last,        \* the last call made: operation, arguments, console output,
                 \* and whether it threw
    calls,       \* the number of calls the user has still to make
    hist         \* the ticks made since the emitters of a group last changed:
                 \* the step of each and the slots it took from dead to alive

vars == <<em, grp, attributes, timers, last, calls, hist>>

\* new Group(options).  _emitterIDs is kept parallel to _emitters (both are
\* pushed and spliced together, and an emitter's uuid is its identity), so
\* the one list emitters stands for both.  geometry.attributes is the set of
\* channels set on the geometry: each is the channel's own BufferAttribute
\* object.
NewGroup(options) ==
    [emitters |-> <<>>,
     pool |-> <<>>,
     poolCreationSettings |-> Null,
     createNewWhenPoolEmpty |-> FALSE,
     attributesNeedRefresh |-> FALSE,
     attributesNeedDynamicReset |-> FALSE,
     particleCount |-> 0,
     maxParticleCount |-> options.maxParticleCount,
     fixedTimeStep |-> options.fixedTimeStep,
     uniforms |-> [deltaTime |-> 0, runTime |-> 0],
     defines |-> [SHOULD_ROTATE_TEXTURE |-> FALSE,
                  SHOULD_ROTATE_PARTICLES |-> FALSE,
                  SHOULD_WIGGLE_PARTICLES |-> FALSE,
                  SHOULD_CALCULATE_SPRITE |-> FALSE],
     materialNeedsUpdate |-> FALSE,
     geometry |-> [attributes |-> {}, drawRange |-> [start |-> 0, count |-> Infinity]]]

NewAttributes == [c \in Channels |-> [a |-> NewShaderAttribute(TRUE), mem |-> <<>>]]

\* Array.prototype.indexOf, 0-based, -1 when absent.
IndexOf(seq, x) ==
    IF \E i \in 1..Len(seq) : seq[i] = x
    THEN (CHOOSE i \in 1..Len(seq) : seq[i] = x /\ \A j \in 1..(i - 1) : seq[j] # x) - 1
    ELSE -1
\* seq.splice(index, 1)
RemoveAt(seq, index) == SubSeq(seq, 1, index) \o SubSeq(seq, index + 2, Len(seq))
Range(seq) == {seq[i] : i \in 1..Len(seq)}

\* Garbage collection: a buffer stays allocated while the channel's typed
\* array, its BufferAttribute or an emitter's cached _paramsArray refers to it.
Referenced(g, c, sa, ems) ==
    (IF IsNull(sa.a.typedArray) THEN {} ELSE {The(sa.a.typedArray).buf})
    \cup (IF IsNull(sa.a.bufferAttribute) THEN {} ELSE {The(sa.a.bufferAttribute).array.buf})
    \cup (IF c = "params"
          THEN {The(ems[e].paramsArray).buf :
                    e \in {x \in Emitters : ems[x].attributes = g /\ ~IsNull(ems[x].paramsArray)}}
          ELSE {})
Collect(g, gb, ems) ==
    [c \in Channels |->
        [gb[c] EXCEPT !.mem = [b \in (DOMAIN @) \cap Referenced(g, c, gb[c], ems) |-> @[b]]]]

\* The program state the operations of Group work on, with the console
\* output of the call under way and whether it has thrown.
World ==
    [em |-> em, grp |-> grp, attributes |-> attributes, timers |-> timers,
     log |-> <<>>, threw |-> FALSE]
Log(w, message) == [w EXCEPT !.log = Append(@, message)]
Call(op, g, e, log, threw) ==
    [op |-> op, g |-> g, e |-> e, log |-> log, threw |-> threw]

\* !!Math.max(x, y)
Truthy(x, y) == ~IsNaN(x) /\ ~IsNaN(y) /\ Max(x, y) # 0

\* Group.updateDefines() were each flag computed from the emitters alone.
updateDefines_Recompute(w, g) ==
    LET ems == w.grp[g].emitters
        D[i \in 0..Len(ems)] ==
            IF i = 0
            THEN [w.grp[g].defines EXCEPT !.SHOULD_ROTATE_TEXTURE = FALSE,
                                          !.SHOULD_ROTATE_PARTICLES = FALSE,
                                          !.SHOULD_WIGGLE_PARTICLES = FALSE]
            ELSE LET emitter == w.em[ems[Len(ems) - i + 1]]
                     d == D[i - 1]
                 IN  [d EXCEPT
                        !.SHOULD_ROTATE_TEXTURE =
                            IF ~d.SHOULD_CALCULATE_SPRITE
                            THEN @ \/ Truthy(emitter.angle.value, emitter.angle.spread)
                            ELSE @,
                        !.SHOULD_ROTATE_PARTICLES =
                            @ \/ Truthy(emitter.rotation.angle, emitter.rotation.angleSpread),
                        !.SHOULD_WIGGLE_PARTICLES =
                            @ \/ Truthy(emitter.wiggle.value, emitter.wiggle.spread)]
    IN  [w EXCEPT !.grp[g].defines = D[Len(ems)],
                  !.grp[g].materialNeedsUpdate = TRUE]

\* Group.updateDefines()
updateDefines(w, g) ==
    LET ems == w.grp[g].emitters
        D[i \in 0..Len(ems)] ==
            IF i = 0 THEN w.grp[g].defines
            ELSE LET emitter == w.em[ems[Len(ems) - i + 1]]
                     d == D[i - 1]
                 IN  [d EXCEPT
                        !.SHOULD_ROTATE_TEXTURE =
                            IF ~d.SHOULD_CALCULATE_SPRITE
                            THEN @ \/ Truthy(emitter.angle.value, emitter.angle.spread)
                            ELSE @,
                        !.SHOULD_ROTATE_PARTICLES =
                            @ \/ Truthy(emitter.rotation.angle, emitter.rotation.angleSpread),
                        !.SHOULD_WIGGLE_PARTICLES =
                            @ \/ Truthy(emitter.wiggle.value, emitter.wiggle.spread)]
    IN  [w EXCEPT !.grp[g].defines = D[Len(ems)],
                  !.grp[g].materialNeedsUpdate = TRUE]

\* BufferAttribute.copy(new BufferAttribute(array, componentSize)) on the
\* channel's BufferAttribute (three.js): its array becomes a fresh copy of
\* the typed array's elements, its usage the source's default.
CopyIntoBufferAttribute(sa) ==
    LET b == FreshBuf(sa.mem)
        array == ViewOf(The(sa.a.typedArray))
    IN  [a |-> [sa.a EXCEPT !.bufferAttribute =
                   Some([The(@) EXCEPT !.array = [buf |-> b, len |-> array.len],
                                       !.usage = StaticDrawUsage,
                                       !.needsUpdate = TRUE])],
         mem |-> (b :> Elements(sa.mem, array)) @@ sa.mem]

\* A variant of _applyAttributesToGeometry that leaves the geometry's draw
\* range as it finds it.
applyAttributesToGeometry_NoDrawRange(w, g) ==
    LET present == w.grp[g].geometry.attributes
        gb == [c \in Channels |->
                  IF c \in present THEN CopyIntoBufferAttribute(w.attributes[g][c])
                  ELSE [w.attributes[g][c] EXCEPT !.a.bufferAttribute =
                           Some([The(@) EXCEPT !.needsUpdate = TRUE])]]
    IN  [w EXCEPT !.attributes[g] = gb,
                  !.grp[g].geometry.attributes = Channels]

\* Group._applyAttributesToGeometry()
applyAttributesToGeometry(w, g) ==
    LET present == w.grp[g].geometry.attributes
        gb == [c \in Channels |->
                  IF c \in present THEN CopyIntoBufferAttribute(w.attributes[g][c])
                  ELSE [w.attributes[g][c] EXCEPT !.a.bufferAttribute =
                           Some([The(@) EXCEPT !.needsUpdate = TRUE])]]
    IN  [w EXCEPT !.attributes[g] = gb,
                  !.grp[g].geometry =
                      [attributes |-> Channels,
                       drawRange |-> [start |-> 0, count |-> w.grp[g].particleCount]]]

\* The body of the loop of addEmitter over the new slots, for slot i.
InitSlot(gb, e, m, i, rnd) ==
    LET iS == i * Scale
        g1 == assignPositionValue(gb, e, m, iS)
        g2 == assignForceValue(g1, e, m, iS, "velocity")
        g3 == assignForceValue(g2, e, m, iS, "acceleration")
        g4 == assignAbsLifetimeValue(g3, e, m, iS, "opacity")
        g5 == assignAbsLifetimeValue(g4, e, m, iS, "size")
        g6 == assignAngleValue(g5, e, m, iS)
        g7 == assignRotationValue(g6, e, m, iS)
        g8 == assignParamsValue(g7, e, m, iS, rnd)
    IN  assignColorValue(g8, e, m, iS)

RECURSIVE InitSlots(_, _, _, _, _, _)
InitSlots(gb, e, m, i, end, rnd) ==
    IF i >= end THEN gb
    ELSE InitSlots(InitSlot(gb, e, m, i, rnd[i]), e, m, i + 1, end, rnd)

\* The Math.random() draws of assignParamsValue that can make a difference.
ParamDraws(m) ==
    [maxAge : DrawsFor(m.maxAge.spread), wiggle : DrawsFor(m.wiggle.spread)]

\* The buffers of the group nothing refers to any more are freed.
CollectGroup(w, g) == [w EXCEPT !.attributes[g] = Collect(g, @, w.em)]

\* The end of addEmitter and removeEmitter: this._attributesNeedRefresh = true.
NeedRefresh(w, g) == CollectGroup([w EXCEPT !.grp[g].attributesNeedRefresh = TRUE], g)

\* A variant of BufferSlots that always asks for the slots the group needs,
\* declared maxParticleCount or not.
BufferSlots_GrowToFit(maxParticleCount, particleCount) == particleCount

\* The number of slots addEmitter asks each channel's buffer to hold.
BufferSlots(maxParticleCount, particleCount) ==
    IF ~IsNull(maxParticleCount) THEN The(maxParticleCount) ELSE particleCount

\* Group.addEmitter(emitter) past its two guards; rnd holds the draws of the
\* new slots' params.
AttachEmitter(w, g, e, rnd) ==
    LET start == w.grp[g].particleCount
        end == start + w.em[e].particleCount
        mpc == w.grp[g].maxParticleCount
        w1 == [w EXCEPT !.grp[g].particleCount = end]
        w2 == IF ~IsNull(mpc) /\ end > The(mpc)
              THEN Log(w1, "SPE.Group: maxParticleCount exceeded.")
              ELSE w1
        m1 == calculatePPSValue(w.em[e], w.em[e].maxAge.value + w.em[e].maxAge.spread)
        m2 == setBufferUpdateRanges(m1, AttributeKeys)
        m3 == setAttributeOffset(m2, start)
        m4 == [m3 EXCEPT !.group = g, !.attributes = g]
        gb1 == [c \in Channels |->
                   createBufferAttribute(w.attributes[g][c], BufferSlots(mpc, end),
                                         ComponentSize(c))]
        gb2 == InitSlots(gb1, e, m4, start, end, rnd)
        w3 == applyAttributesToGeometry(
                  [w2 EXCEPT !.em[e] = m4, !.attributes[g] = gb2], g)
    IN  NeedRefresh(updateDefines([w3 EXCEPT !.grp[g].emitters = Append(@, e)], g), g)

\* A variant of addEmitter without its two guards.
addEmitter_Unguarded(w, g, e, rnd) == AttachEmitter(w, g, e, rnd)

\* Group.addEmitter(emitter)
addEmitter(w, g, e, rnd) ==
    IF IndexOf(w.grp[g].emitters, e) > -1
    THEN Log(w, "Emitter already exists in this group. Will not add again.")
    ELSE IF w.em[e].group # NoGroup
    THEN Log(w, "Emitter already belongs to another group. Will not add to requested group.")
    ELSE AttachEmitter(w, g, e, rnd)

\* Group.removeEmitter(emitter) past its guards.
DetachEmitter(w, g, e) ==
    LET emitterIndex == IndexOf(w.grp[g].emitters, e)
        start == w.em[e].attributeOffset
        end == start + w.em[e].particleCount
        params == w.attributes[g]["params"]
        view == ViewOf(The(params.a.typedArray))
        K[i \in (start - 1)..(end - 1)] ==
            IF i < start THEN params.mem
            ELSE ArrSet(ArrSet(K[i - 1], view, i * 4 * Scale, 0),
                        view, (i * 4 + 1) * Scale, 0)
        gb1 == [w.attributes[g] EXCEPT !["params"].mem = K[end - 1]]
        gb2 == [c \in Channels |-> attrSplice(gb1[c], start, end, ComponentSize(c))]
        w1 == [w EXCEPT !.grp[g].emitters = RemoveAt(@, emitterIndex),
                        !.attributes[g] = gb2,
                        !.grp[g].particleCount = @ - w.em[e].particleCount,
                        !.em[e] = onRemove(@)]
    IN  NeedRefresh(updateDefines(applyAttributesToGeometry(w1, g), g), g)

\* A variant of removeEmitter that throws on an emitter that is no member,
\* where the code logs an error.
removeEmitter_Throwing(w, g, e) ==
    IF IndexOf(w.grp[g].emitters, e) = -1
    THEN [w EXCEPT !.threw = TRUE]
    ELSE DetachEmitter(w, g, e)

\* Group.removeEmitter(emitter)
removeEmitter(w, g, e) ==
    IF IndexOf(w.grp[g].emitters, e) = -1
    THEN Log(w, "Emitter does not exist in this group. Will not remove.")
    ELSE DetachEmitter(w, g, e)

\* Emitter.remove()
remove(w, e) ==
    IF w.em[e].group # NoGroup
    THEN removeEmitter(w, w.em[e].group, e)
    ELSE Log(w, "Emitter does not belong to a group, cannot remove.")

\* What Group.getFromPool() returns on an empty pool, and the value
\* _triggerSingleEmitter compares its result with.
Undefined == 0
JsNull == -1

\* A variant of getFromPool that takes the emitter at the front of the pool.
getFromPool_Shift(w, g) ==
    LET pool == w.grp[g].pool
    IN  IF Len(pool) # 0
        THEN [emitter |-> pool[1],
              w |-> [w EXCEPT !.grp[g].pool = SubSeq(pool, 2, Len(pool))]]
        ELSE [emitter |-> Undefined, w |-> w]

\* Group.getFromPool(): the emitter returned and the pool left.
getFromPool(w, g) ==
    LET pool == w.grp[g].pool
    IN  IF Len(pool) # 0
        THEN [emitter |-> pool[Len(pool)],
              w |-> [w EXCEPT !.grp[g].pool = SubSeq(pool, 1, Len(pool) - 1)]]
        ELSE IF w.grp[g].createNewWhenPoolEmpty
        THEN [emitter |-> Undefined, w |-> w]
        ELSE [emitter |-> Undefined, w |-> w]

\* Group.releaseIntoPool(emitter)
releaseIntoPool(w, g, e) ==
    [w EXCEPT !.em[e] = reset(@), !.grp[g].pool = <<e>> \o @]

\* Group.addPool(numEmitters, emitterOptions, createNew), the new Emitter
\* objects being those of the identities ids.
addPool(w, g, ids, emitterOptions, createNew, rnd) ==
    LET w0 == [w EXCEPT !.grp[g].poolCreationSettings = Some(emitterOptions),
                        !.grp[g].createNewWhenPoolEmpty = createNew]
        P[i \in 0..Len(ids)] ==
            IF i = 0 THEN w0
            ELSE LET emitter == ids[i]
                     w1 == [P[i - 1] EXCEPT !.em[emitter] = NewEmitter(emitterOptions)]
                 IN  releaseIntoPool(addEmitter(w1, g, emitter, rnd), g, emitter)
    IN  P[Len(ids)]

\* emitter.position.value.copy(pos), then the setter of position.value.
SetPositionValue(w, e) ==
    [updateDefines([w EXCEPT !.em[e].updateFlags["position"] = TRUE,
                             !.em[e].updateCounts["position"] = 0],
                   w.em[e].group)
        EXCEPT !.em[e].position.value = PositionStep]

\* The delay _triggerSingleEmitter passes to setTimeout, in milliseconds.
TimeoutDelay(m) == Max(m.duration, m.maxAge.value + m.maxAge.spread) * 1000

\* Group._triggerSingleEmitter(pos); pos tells whether a Vector3 was passed.
\* The result of getFromPool is never null, so on an empty pool the first
\* use of the undefined emitter throws a TypeError.
triggerSingleEmitter(w, g, pos) ==
    LET got == getFromPool(w, g)
        emitter == got.emitter
        w1 == IF pos THEN SetPositionValue(got.w, emitter) ELSE got.w
        w2 == [w1 EXCEPT !.em[emitter] = enable(@)]
    IN  IF emitter = JsNull THEN Log(got.w, "SPE.Group pool ran out.")
        ELSE IF emitter = Undefined THEN [got.w EXCEPT !.threw = TRUE]
        ELSE [w2 EXCEPT !.timers =
                 Append(@, [g |-> g, emitter |-> emitter,
                            delay |-> TimeoutDelay(w2.em[emitter])])]

\* Group.triggerPoolEmitter(numEmitters, position); an exception ends the loop.
triggerPoolEmitter(w, g, numEmitters, pos) ==
    LET T[i \in 0..numEmitters] ==
            IF i = 0 THEN w
            ELSE IF T[i - 1].threw THEN T[i - 1]
            ELSE triggerSingleEmitter(T[i - 1], g, pos)
    IN  IF numEmitters > 1 THEN T[numEmitters] ELSE triggerSingleEmitter(w, g, pos)

\* A variant of the callback that disables the emitter and forgets to
\* release it into the pool.
OnTimeout_NoRelease(w, t) == [w EXCEPT !.em[t.emitter] = disable(@)]

\* The callback _triggerSingleEmitter hands to setTimeout, for the timer t.
OnTimeout(w, t) ==
    releaseIntoPool([w EXCEPT !.em[t.emitter] = disable(@)], t.g, t.emitter)

\* Group._updateBuffers(emitter)
updateBuffers(w, g, e) ==
    [w EXCEPT !.attributes[g] =
        [c \in Channels |->
            LET emitterAttr == w.em[e].bufferUpdateRanges[c]
                a1 == setUpdateRange(@[c].a, emitterAttr.min, emitterAttr.max,
                                     ComponentSize(c))
            IN  [@[c] EXCEPT !.a = flagUpdate(a1, ComponentSize(c))]]]

\* Group._updateUniforms(dt) and Group._resetBufferRanges()
BeginTick(w, g, deltaTime) ==
    [w EXCEPT !.grp[g].uniforms =
                  [runTime |-> @.runTime + deltaTime, deltaTime |-> deltaTime],
              !.attributes[g] =
                  [c \in Channels |-> [@[c] EXCEPT !.a = resetUpdateRange(@)]]]

\* The body of the loop of Group.tick over the emitters.
TickEmitter(w, g, emitter, deltaTime, rnd) ==
    LET s == tick([m |-> w.em[emitter], gb |-> w.attributes[g]], emitter, deltaTime, rnd)
    IN  updateBuffers([w EXCEPT !.em[emitter] = s.m, !.attributes[g] = s.gb], g, emitter)

RECURSIVE TickEmitters(_, _, _, _, _, _)
TickEmitters(w, g, i, numEmitters, deltaTime, rnd) ==
    IF i > numEmitters THEN w
    ELSE TickEmitters(TickEmitter(w, g, w.grp[g].emitters[i], deltaTime, rnd),
                      g, i + 1, numEmitters, deltaTime, rnd)

\* Group.tick: if (this._attributesNeedDynamicReset === true) ...
ResetDynamicIfNeeded(w, g) ==
    IF w.grp[g].attributesNeedDynamicReset
    THEN [w EXCEPT !.attributes[g] =
                       [c \in Channels |-> [@[c] EXCEPT !.a = resetDynamic(@)]],
                   !.grp[g].attributesNeedDynamicReset = FALSE]
    ELSE w

\* Group.tick: if (this._attributesNeedRefresh === true) ...
RefreshIfNeeded(w, g) ==
    IF w.grp[g].attributesNeedRefresh
    THEN [w EXCEPT !.attributes[g] = [c \in Channels |-> forceUpdateAll(@[c])],
                   !.grp[g].attributesNeedRefresh = FALSE,
                   !.grp[g].attributesNeedDynamicReset = TRUE]
    ELSE w

\* Group.tick(dt) were the full refresh to come before the dynamic reset.
groupTick_RefreshFirst(w, g, dt, rnd) ==
    LET numEmitters == Len(w.grp[g].emitters)
        deltaTime == IF IsNull(dt) \/ The(dt) = 0 THEN w.grp[g].fixedTimeStep ELSE The(dt)
    IN  IF numEmitters = 0 /\ ~w.grp[g].attributesNeedRefresh
           /\ ~w.grp[g].attributesNeedDynamicReset
        THEN BeginTick(w, g, deltaTime)
        ELSE CollectGroup(
                 ResetDynamicIfNeeded(
                     RefreshIfNeeded(
                         TickEmitters(BeginTick(w, g, deltaTime), g, 1, numEmitters,
                                      deltaTime, rnd),
                         g),
                     g),
                 g)

\* Group.tick(dt); dt is Null when the argument is left out.
groupTick(w, g, dt, rnd) ==
    LET numEmitters == Len(w.grp[g].emitters)
        deltaTime == IF IsNull(dt) \/ The(dt) = 0 THEN w.grp[g].fixedTimeStep ELSE The(dt)
    IN  IF numEmitters = 0 /\ ~w.grp[g].attributesNeedRefresh
           /\ ~w.grp[g].attributesNeedDynamicReset
        THEN BeginTick(w, g, deltaTime)
        ELSE CollectGroup(
                 RefreshIfNeeded(
                     ResetDynamicIfNeeded(
                         TickEmitters(BeginTick(w, g, deltaTime), g, 1, numEmitters,
                                      deltaTime, rnd),
                         g),
                     g),
                 g)

\* The setter of EmitterRotation.angle: the rotation channel is flagged for
\* update and the defines are updated before the new value is stored; the
\* emitter's system is the group it is attached to, null if there is none.
setRotationAngle(w, e, value) ==
    LET w1 == [w EXCEPT !.em[e].updateFlags["rotation"] = TRUE,
                        !.em[e].updateCounts["rotation"] = 0]
    IN  IF w.em[e].group = NoGroup
        THEN [w1 EXCEPT !.threw = TRUE]
        ELSE [updateDefines(w1, w.em[e].group) EXCEPT !.em[e].rotation.angle = value]

\* Emitter.updateMap: the channel a property of the emitter is written to.
updateMap(prop) ==
    CASE prop \in {"maxAge", "wiggle"} -> "params"
      [] prop = "drag" -> "acceleration"
      [] OTHER -> prop

\* What a value or spread setter of property prop does before it stores the
\* value: it flags the mapped channel for a rewrite and has the group
\* recompute its defines; on an emitter without a group that call throws.
FlagUpdate(w, e, prop) ==
    LET w1 == [w EXCEPT !.em[e].updateFlags[updateMap(prop)] = TRUE,
                        !.em[e].updateCounts[updateMap(prop)] = 0]
    IN  IF w.em[e].group = NoGroup
        THEN [w1 EXCEPT !.threw = TRUE]
        ELSE updateDefines(w1, w.em[e].group)

\* A randomize setter that asked for a rewrite like a value setter.
FlagReset_Rewrite(w, e, prop, value) ==
    [FlagUpdate(w, e, prop) EXCEPT !.em[e].resetFlags[updateMap(prop)] = value]

\* The same for a randomize setter.
FlagReset(w, e, prop, value) ==
    LET w1 == [w EXCEPT !.em[e].resetFlags[updateMap(prop)] = value]
    IN  IF w.em[e].group = NoGroup
        THEN [w1 EXCEPT !.threw = TRUE]
        ELSE updateDefines(w1, w.em[e].group)

\* The setters of EmitterPosition and EmitterMaxAge.
setPositionValue(w, e, value) ==
    IF w.em[e].group = NoGroup THEN FlagUpdate(w, e, "position")
    ELSE [FlagUpdate(w, e, "position") EXCEPT !.em[e].position.value = value]

setPositionSpread(w, e, value) ==
    IF w.em[e].group = NoGroup THEN FlagUpdate(w, e, "position")
    ELSE [FlagUpdate(w, e, "position") EXCEPT !.em[e].position.spread = value]

setPositionRandomize(w, e, value) ==
    IF w.em[e].group = NoGroup THEN FlagReset(w, e, "position", value)
    ELSE [FlagReset(w, e, "position", value) EXCEPT !.em[e].position.randomize = value]

setMaxAgeValue(w, e, value) ==
    IF w.em[e].group = NoGroup THEN FlagUpdate(w, e, "maxAge")
    ELSE [FlagUpdate(w, e, "maxAge") EXCEPT !.em[e].maxAge.value = value]

\* The value and spread setters of EmitterOpacity: what is
\* stored is the argument brought to the length of the values over lifetime,
\* next to the array of the other field.
WithValue(m, arg) ==
    ensureValueAndSpreadOverLifetimeCompliance(
        ensureArrayTypedArg(arg, Scale), ArrayArg(m.spread),
        valueOverLifetimeLength, valueOverLifetimeLength).value

WithSpread(m, arg) ==
    ensureValueAndSpreadOverLifetimeCompliance(
        ArrayArg(m.value), ensureArrayTypedArg(arg, 0),
        valueOverLifetimeLength, valueOverLifetimeLength).spread

setOpacityValue(w, e, value) ==
    IF w.em[e].group = NoGroup THEN FlagUpdate(w, e, "opacity")
    ELSE [FlagUpdate(w, e, "opacity")
             EXCEPT !.em[e].opacity.value = WithValue(w.em[e].opacity, value)]

setOpacitySpread(w, e, value) ==
    IF w.em[e].group = NoGroup THEN FlagUpdate(w, e, "opacity")
    ELSE [FlagUpdate(w, e, "opacity")
             EXCEPT !.em[e].opacity.spread = WithSpread(w.em[e].opacity, value)]

\* Emitter.reset(force): with force, the alive flag and the age of every
\* slot of the emitter are set to 0 in the params array the emitter has
\* cached, and the params BufferAttribute is marked for a full upload; an
\* emitter that has cached no array (never ticked, or removed) throws a
\* TypeError once its age and its _alive are reset.
emitterReset(w, e, force) ==
    LET m == reset(w.em[e])
        g == m.attributes
        start == m.attributeOffset
        end == start + m.particleCount
        array == The(m.paramsArray)
        K[i \in (start - 1)..(end - 1)] ==
            IF i < start THEN w.attributes[g]["params"].mem
            ELSE ArrSet(ArrSet(K[i - 1], array, i * 4 * Scale, 0),
                        array, (i * 4 + 1) * Scale, 0)
    IN  IF ~force THEN [w EXCEPT !.em[e] = m]
        ELSE IF IsNull(m.paramsArray) THEN [w EXCEPT !.em[e] = m, !.threw = TRUE]
        ELSE [w EXCEPT !.em[e] = m,
                       !.attributes[g]["params"].mem = K[end - 1],
                       !.attributes[g]["params"].a.bufferAttribute =
                           Some([The(@) EXCEPT
                                    !.updateRange = [offset |-> 0, count |-> -Scale],
                                    !.needsUpdate = TRUE])]

\* ------------------------------------------------- calls made by the user
\* A call is made while the run has calls left; its effect w becomes the
\* program state and last records it.
Called == calls > 0 /\ calls' = calls - 1

\* The params array emitter e of group g works on in its next tick, and the
\* alive flag of slot i in a params memory seen through it.
ParamsView(g, e) ==
    IF IsNull(em[e].paramsArray)
    THEN ViewOf(The(attributes[g]["params"].a.typedArray))
    ELSE The(em[e].paramsArray)
AliveFlag(mem, view, i) == ArrGet(mem, view, i * 4 * Scale)

\* The params memory of group g once emitter e's _checkParticleAges has run
\* with step dt on the state the call starts in.
AfterAgeing(g, e, dt) ==
    checkParticleAges(CacheParamsArray([m |-> em[e], gb |-> attributes[g]]),
                      em[e].attributeOffset,
                      em[e].attributeOffset + em[e].particleCount,
                      ParamsView(g, e), dt).gb["params"].mem

\* The slots a tick of group g with step dt, ending in w, took from dead to
\* alive: dead once the ages were checked, alive when the tick ends.
Activated(w, g, dt) ==
    {<<e, i>> \in Emitters \X (0..(MaxEmitters * MaxCount)) :
        /\ e \in Range(grp[g].emitters)
        /\ ~em[e].isStatic
        /\ i >= em[e].attributeOffset
        /\ i < em[e].attributeOffset + em[e].particleCount
        /\ StrictEq(AliveFlag(AfterAgeing(g, e, dt), ParamsView(g, e), i), 0)
        /\ ~StrictEq(AliveFlag(w.attributes[g]["params"].mem, ParamsView(g, e), i), 0)
        /\ ~IsNaN(AliveFlag(w.attributes[g]["params"].mem, ParamsView(g, e), i))}

\* What a call adds to the record of ticks: enable and disable leave it,
\* any other call that is no tick starts it anew.
Observe(w, op, g) ==
    IF op = "tick"
    THEN Append(hist, [dt |-> w.grp[g].uniforms.deltaTime,
                       activated |-> Cardinality(Activated(w, g, w.grp[g].uniforms.deltaTime))])
    ELSE IF op \in {"enable", "disable"} THEN hist
    ELSE <<>>

Commit(w, op, g, e) ==
    /\ em' = w.em
    /\ grp' = w.grp
    /\ attributes' = w.attributes
    /\ timers' = w.timers
    /\ last' = Call(op, g, e, w.log, w.threw)
    /\ hist' = Observe(w, op, g)

AddEmitter(g, e) ==
    /\ em[e].constructed
    /\ Called
    /\ \E rnd \in [grp[g].particleCount..(grp[g].particleCount + em[e].particleCount - 1)
                      -> ParamDraws(em[e])] :
           Commit(addEmitter(World, g, e, rnd), "addEmitter", g, e)

RemoveEmitter(g, e) ==
    /\ em[e].constructed
    /\ Called
    /\ Commit(removeEmitter(World, g, e), "removeEmitter", g, e)

EmitterRemove(e) ==
    /\ em[e].constructed
    /\ Called
    /\ Commit(remove(World, e), "remove", em[e].group, e)

\* The identities the next numEmitters new Emitter objects get.
NewIds(numEmitters) ==
    LET free == {e \in Emitters : ~em[e].constructed}
        Nth[i \in 1..numEmitters] ==
            CHOOSE e \in free :
                Cardinality({x \in free : x < e}) = i - 1
    IN  Nth

AddPool(g, numEmitters, emitterOptions, createNew) ==
    /\ Cardinality({e \in Emitters : ~em[e].constructed}) >= numEmitters
    /\ Called
    /\ \E rnd \in [grp[g].particleCount..
                       (grp[g].particleCount + numEmitters * emitterOptions.particleCount - 1)
                      -> ParamDraws(NewEmitter(emitterOptions))] :
           Commit(addPool(World, g, NewIds(numEmitters), emitterOptions, createNew, rnd),
                  "addPool", g, numEmitters)

TriggerPoolEmitter(g, numEmitters, pos) ==
    /\ Called
    /\ Commit(triggerPoolEmitter(World, g, numEmitters, pos),
              "triggerPoolEmitter", g, numEmitters)

\* A timer set earlier with a delay no longer than another's expires first.
MayExpire(i) == \A k \in 1..(i - 1) : timers[k].delay > timers[i].delay

\* The timer set i-th among those pending expires and its callback runs.
Timeout(i) ==
    /\ i \in 1..Len(timers)
    /\ MayExpire(i)
    /\ Commit(OnTimeout([World EXCEPT !.timers = RemoveAt(@, i - 1)], timers[i]),
              "timeout", timers[i].g, timers[i].emitter)
    /\ UNCHANGED calls

\* The draws a tick's _resetParticle calls can use.
TickDraws(g) ==
    IF \E i \in 1..Len(grp[g].emitters) :
           LET m == em[grp[g].emitters[i]]
           IN  m.resetFlags["params"] \/ m.updateFlags["params"]
    THEN [maxAge : RandomDraws, wiggle : RandomDraws]
    ELSE {[maxAge |-> Scale \div 2, wiggle |-> Scale \div 2]}

Tick(g, dt) ==
    /\ Called
    /\ \E rnd \in TickDraws(g) :
           Commit(groupTick(World, g, dt, rnd), "tick", g, 0)

Enable(e) ==
    /\ em[e].constructed
    /\ Called
    /\ Commit([World EXCEPT !.em[e] = enable(@)], "enable", em[e].group, e)

Disable(e) ==
    /\ em[e].constructed
    /\ Called
    /\ Commit([World EXCEPT !.em[e] = disable(@)], "disable", em[e].group, e)

Reset(e, force) ==
    /\ em[e].constructed
    /\ Called
    /\ Commit(emitterReset(World, e, force), "reset", em[e].group, e)

SetRotationAngle(e, value) ==
    /\ em[e].constructed
    /\ Called
    /\ Commit(setRotationAngle(World, e, value), "rotation.angle", em[e].group, e)

SetPosition(e, value) ==
    /\ em[e].constructed
    /\ Called
    /\ Commit(setPositionValue(World, e, value), "position.value", em[e].group, e)

SetPositionSpread(e, value) ==
    /\ em[e].constructed
    /\ Called
    /\ Commit(setPositionSpread(World, e, value), "position.spread", em[e].group, e)

SetPositionRandomize(e, value) ==
    /\ em[e].constructed
    /\ Called
    /\ Commit(setPositionRandomize(World, e, value), "position.randomize", em[e].group, e)

SetMaxAgeValue(e, value) ==
    /\ em[e].constructed
    /\ Called
    /\ Commit(setMaxAgeValue(World, e, value), "maxAge.value", em[e].group, e)

SetOpacityValue(e, value) ==
    /\ em[e].constructed
    /\ Called
    /\ Commit(setOpacityValue(World, e, value), "opacity.value", em[e].group, e)

SetOpacitySpread(e, value) ==
    /\ em[e].constructed
    /\ Called
    /\ Commit(setOpacitySpread(World, e, value), "opacity.spread", em[e].group, e)

\* ---------------------------------------------------------- specifications
CountOptions == {[DefaultOptions EXCEPT !.particleCount = n] : n \in 1..MaxCount}
CapacityOptions ==
    {[maxParticleCount |-> mpc, fixedTimeStep |-> Scale]
        : mpc \in {Null, Some(MaxCount)}}
DefaultGroupOptions == [maxParticleCount |-> Null, fixedTimeStep |-> Scale]
\* tick() and tick(dt) with dt half a second; fixedTimeStep is one second.
TickArgs == {Null, Some(Scale \div 2)}

\* Adding and removing: one group, with or without a declared
\* maxParticleCount, and emitters of every particle count up to MaxCount,
\* under any MaxCalls calls of addEmitter, removeEmitter and Emitter.remove.
Init ==
    /\ em \in [Emitters -> {NewEmitter(o) : o \in CountOptions}]
    /\ \E o \in CapacityOptions :
           grp = [g \in Groups |->
                     IF g = "g1" THEN NewGroup(o) ELSE NewGroup(DefaultGroupOptions)]
    /\ attributes = [g \in Groups |-> NewAttributes]
    /\ timers = <<>>
    /\ last = Call("new Group", NoGroup, 0, <<>>, FALSE)
    /\ hist = <<>>
    /\ calls = MaxCalls

Next ==
    \/ \E e \in Emitters : AddEmitter("g1", e)
    \/ \E e \in Emitters : RemoveEmitter("g1", e)
    \/ \E e \in Emitters : EmitterRemove(e)

Spec == Init /\ [][Next]_vars

\* Two groups sharing the emitters, under any MaxGroupCalls calls.
InitGroups ==
    /\ em \in [Emitters -> {NewEmitter(o) : o \in CountOptions}]
    /\ grp = [g \in Groups |-> NewGroup(DefaultGroupOptions)]
    /\ attributes = [g \in Groups |-> NewAttributes]
    /\ timers = <<>>
    /\ last = Call("new Group", NoGroup, 0, <<>>, FALSE)
    /\ hist = <<>>
    /\ calls = MaxGroupCalls

NextGroups ==
    \/ \E g \in Groups, e \in Emitters : AddEmitter(g, e)
    \/ \E g \in Groups, e \in Emitters : RemoveEmitter(g, e)
    \/ \E e \in Emitters : EmitterRemove(e)

SpecGroups == InitGroups /\ [][NextGroups]_vars

\* The emitter pool: one group, its pool filled by addPool, under any
\* MaxPoolCalls calls of addPool, triggerPoolEmitter and tick, with the
\* timers expiring in between.
InitPool ==
    /\ em = [e \in Emitters |-> NotConstructed]
    /\ grp = [g \in Groups |-> NewGroup(DefaultGroupOptions)]
    /\ attributes = [g \in Groups |-> NewAttributes]
    /\ timers = <<>>
    /\ last = Call("new Group", NoGroup, 0, <<>>, FALSE)
    /\ hist = <<>>
    /\ calls = MaxPoolCalls

NextPool ==
    \/ \E n \in 1..MaxEmitters, o \in CountOptions, createNew \in BOOLEAN :
           AddPool("g1", n, o, createNew)
    \/ \E n \in 1..MaxTrigger, pos \in BOOLEAN : TriggerPoolEmitter("g1", n, pos)
    \/ \E i \in 1..MaxEmitters : Timeout(i)
    \/ \E dt \in TickArgs : Tick("g1", dt)

SpecPool == InitPool /\ [][NextPool]_vars

\* The same with the timers fair: a pending timer expires in the end.
FairSpecPool == SpecPool /\ WF_vars(\E i \in 1..MaxEmitters : Timeout(i))

\* Simulation: one group, emitters of either direction, under any
\* MaxTickCalls calls of addEmitter and tick.
TickOptions ==
    {[o EXCEPT !.direction = d] : o \in CountOptions, d \in {1, -1}}

InitTick ==
    /\ em \in [Emitters -> {NewEmitter(o) : o \in TickOptions}]
    /\ grp = [g \in Groups |-> NewGroup(DefaultGroupOptions)]
    /\ attributes = [g \in Groups |-> NewAttributes]
    /\ timers = <<>>
    /\ last = Call("new Group", NoGroup, 0, <<>>, FALSE)
    /\ hist = <<>>
    /\ calls = MaxTickCalls

NextTick ==
    \/ \E e \in Emitters : AddEmitter("g1", e)
    \/ \E dt \in TickArgs : Tick("g1", dt)

SpecTick == InitTick /\ [][NextTick]_vars

\* One emitter on its own: either direction, with or without a duration of
\* half a second or of three seconds, with or without a spread of its
\* max-age, in a group whose fixedTimeStep is a second or half a second,
\* under any MaxRunCalls calls of addEmitter, tick() and enable.
RunOptions ==
    {[o EXCEPT !.direction = d] : o \in CountOptions, d \in {1, -1}}
    \cup {[o EXCEPT !.duration = d] : o \in CountOptions, d \in {Scale \div 2, 3 * Scale}}
    \cup {[o EXCEPT !.maxAge = [value |-> 2 * Scale, spread |-> Scale]] : o \in CountOptions}
StepOptions ==
    {[maxParticleCount |-> Null, fixedTimeStep |-> step] : step \in {Scale, Scale \div 2}}

InitRun ==
    /\ \E o \in RunOptions :
           em = [e \in Emitters |-> IF e = 1 THEN NewEmitter(o) ELSE NotConstructed]
    /\ \E o \in StepOptions :
           grp = [g \in Groups |->
                     IF g = "g1" THEN NewGroup(o) ELSE NewGroup(DefaultGroupOptions)]
    /\ attributes = [g \in Groups |-> NewAttributes]
    /\ timers = <<>>
    /\ last = Call("new Group", NoGroup, 0, <<>>, FALSE)
    /\ hist = <<>>
    /\ calls = MaxRunCalls

NextRun ==
    \/ AddEmitter("g1", 1)
    \/ Tick("g1", Null)
    \/ Enable(1)

SpecRun == InitRun /\ [][NextRun]_vars

\* The lives of the emitters: two emitters of every particle count up to
\* MaxCount in one group, under any MaxLifeCalls calls of addEmitter, disable
\* and tick, the tick with no argument, with 0 and with half a second.
LifeTickArgs == {Null, Some(0), Some(Scale \div 2)}

InitLife ==
    /\ em \in [Emitters -> {NewEmitter(o) : o \in CountOptions} \cup {NotConstructed}]
    /\ \A e \in Emitters : em[e].constructed <=> e <= 2
    /\ grp = [g \in Groups |-> NewGroup(DefaultGroupOptions)]
    /\ attributes = [g \in Groups |-> NewAttributes]
    /\ timers = <<>>
    /\ last = Call("new Group", NoGroup, 0, <<>>, FALSE)
    /\ hist = <<>>
    /\ calls = MaxLifeCalls

NextLife ==
    \/ \E e \in Emitters : AddEmitter("g1", e)
    \/ \E e \in Emitters : Disable(e)
    \/ \E dt \in LifeTickArgs : Tick("g1", dt)

SpecLife == InitLife /\ [][NextLife]_vars

\* The shader flags and the refresh of the buffers: two emitters of one
\* particle, the first with no rotation, wiggle or angle or with one of them,
\* positive or negative, the second with or without a rotation, under any
\* MaxFlagCalls calls of addEmitter, removeEmitter, tick() and the setter of
\* rotation.angle.
OneParticle == [DefaultOptions EXCEPT !.particleCount = 1]
FlagOptions ==
    {OneParticle,
     [OneParticle EXCEPT !.rotation.angle = Scale],
     [OneParticle EXCEPT !.rotation.angle = -Scale],
     [OneParticle EXCEPT !.wiggle.spread = -Scale],
     [OneParticle EXCEPT !.angle.value = -Scale]}
AngleArgs == {0, Scale}

InitFlags ==
    /\ \E o1 \in FlagOptions, o2 \in {OneParticle, [OneParticle EXCEPT !.rotation.angleSpread = Scale]} :
           em = [e \in Emitters |->
                    IF e = 1 THEN NewEmitter(o1)
                    ELSE IF e = 2 THEN NewEmitter(o2) ELSE NotConstructed]
    /\ grp = [g \in Groups |-> NewGroup(DefaultGroupOptions)]
    /\ attributes = [g \in Groups |-> NewAttributes]
    /\ timers = <<>>
    /\ last = Call("new Group", NoGroup, 0, <<>>, FALSE)
    /\ hist = <<>>
    /\ calls = MaxFlagCalls

NextFlags ==
    \/ \E e \in Emitters : AddEmitter("g1", e)
    \/ \E e \in Emitters : RemoveEmitter("g1", e)
    \/ Tick("g1", Null)
    \/ \E e \in Emitters, value \in AngleArgs : SetRotationAngle(e, value)

SpecFlags == InitFlags /\ [][NextFlags]_vars

\* The property setters in the simulation: one emitter of up to MaxCount
\* particles, its forces laid out in a box or on a sphere, its velocity
\* drawn anew at every respawn or not, under any MaxSetterCalls calls of
\* addEmitter, tick() and the setters of position.value, position.spread,
\* position.randomize and maxAge.value.
SetterOptions ==
    {[o EXCEPT !.type = t, !.velocity.randomize = r]
        : o \in CountOptions, t \in {"box", "sphere"}, r \in BOOLEAN}

InitSetters ==
    /\ \E o \in SetterOptions :
           em = [e \in Emitters |-> IF e = 1 THEN NewEmitter(o) ELSE NotConstructed]
    /\ grp = [g \in Groups |-> NewGroup(DefaultGroupOptions)]
    /\ attributes = [g \in Groups |-> NewAttributes]
    /\ timers = <<>>
    /\ last = Call("new Group", NoGroup, 0, <<>>, FALSE)
    /\ hist = <<>>
    /\ calls = MaxSetterCalls

NextSetters ==
    \/ AddEmitter("g1", 1)
    \/ Tick("g1", Null)
    \/ SetPosition(1, PositionStep)
    \/ SetPositionSpread(1, Scale)
    \/ \E value \in BOOLEAN : SetPositionRandomize(1, value)
    \/ SetMaxAgeValue(1, Scale)

SpecSetters == InitSetters /\ [][NextSetters]_vars

\* The values over lifetime: one emitter of one particle, its opacity and
\* its size given at construction as nothing, a number or an array, under any
\* MaxCurveCalls calls of addEmitter and of the value and spread setters of
\* opacity with a number or an array of up to MaxCurveLen numbers.
RECURSIVE ArraysOf(_)
ArraysOf(n) ==
    IF n = 0 THEN {<<>>}
    ELSE {Append(s, x) : s \in ArraysOf(n - 1), x \in {0, Scale}}

CurveArgs ==
    {NumberArg(x) : x \in {0, Scale}}
    \cup {ArrayArg(s) : s \in UNION {ArraysOf(n) : n \in 1..MaxCurveLen}}

CurveOptions ==
    {[OneParticle EXCEPT !.opacity = [value |-> v, spread |-> s], !.size.value = z]
        : v \in {NoArg, NumberArg(0), ArrayArg(<<0, Scale>>)},
          s \in {NoArg, ArrayArg(<<Scale, 0, Scale>>)},
          z \in {NoArg, ArrayArg(<<0, 0, Scale, 0, Scale>>)}}

InitCurves ==
    /\ \E o \in CurveOptions :
           em = [e \in Emitters |-> IF e = 1 THEN NewEmitter(o) ELSE NotConstructed]
    /\ grp = [g \in Groups |-> NewGroup(DefaultGroupOptions)]
    /\ attributes = [g \in Groups |-> NewAttributes]
    /\ timers = <<>>
    /\ last = Call("new Group", NoGroup, 0, <<>>, FALSE)
    /\ hist = <<>>
    /\ calls = MaxCurveCalls

NextCurves ==
    \/ AddEmitter("g1", 1)
    \/ \E value \in CurveArgs : SetOpacityValue(1, value)
    \/ \E value \in CurveArgs : SetOpacitySpread(1, value)

SpecCurves == InitCurves /\ [][NextCurves]_vars

\* The emission rates: one emitter of every particle count up to MaxCount,
\* either direction, its activeMultiplier 1 or 3/2, in a group whose
\* fixedTimeStep is a second or half a second, under any MaxRateCalls calls of
\* addEmitter, tick() and tick(dt) with dt half a second.
RateOptions ==
    {[o EXCEPT !.direction = d, !.activeMultiplier = a]
        : o \in CountOptions, d \in {1, -1}, a \in {Scale, (3 * Scale) \div 2}}

InitRate ==
    /\ \E o \in RateOptions :
           em = [e \in Emitters |-> IF e = 1 THEN NewEmitter(o) ELSE NotConstructed]
    /\ \E o \in StepOptions :
           grp = [g \in Groups |->
                     IF g = "g1" THEN NewGroup(o) ELSE NewGroup(DefaultGroupOptions)]
    /\ attributes = [g \in Groups |-> NewAttributes]
    /\ timers = <<>>
    /\ last = Call("new Group", NoGroup, 0, <<>>, FALSE)
    /\ hist = <<>>
    /\ calls = MaxRateCalls

NextRate ==
    \/ AddEmitter("g1", 1)
    \/ \E dt \in TickArgs : Tick("g1", dt)

SpecRate == InitRate /\ [][NextRate]_vars

\* The pool with removals: one group, its pool filled by addPool, under any
\* MaxDetachCalls calls of addPool, triggerPoolEmitter without a position,
\* removeEmitter, Emitter.remove and tick(), with the timers expiring in
\* between.
InitDetach ==
    /\ em = [e \in Emitters |-> NotConstructed]
    /\ grp = [g \in Groups |-> NewGroup(DefaultGroupOptions)]
    /\ attributes = [g \in Groups |-> NewAttributes]
    /\ timers = <<>>
    /\ last = Call("new Group", NoGroup, 0, <<>>, FALSE)
    /\ hist = <<>>
    /\ calls = MaxDetachCalls

NextDetach ==
    \/ \E n \in 1..MaxTrigger, o \in CountOptions : AddPool("g1", n, o, FALSE)
    \/ TriggerPoolEmitter("g1", 1, FALSE)
    \/ \E i \in 1..MaxEmitters : Timeout(i)
    \/ \E e \in Emitters : RemoveEmitter("g1", e)
    \/ \E e \in Emitters : EmitterRemove(e)
    \/ Tick("g1", Null)

SpecDetach == InitDetach /\ [][NextDetach]_vars

\* The emitter's switches: one emitter of up to MaxCount particles, under
\* any MaxResetCalls calls of addEmitter, tick(), enable, disable, reset with
\* and without force and the setter of maxAge.value.
InitReset ==
    /\ \E o \in CountOptions :
           em = [e \in Emitters |-> IF e = 1 THEN NewEmitter(o) ELSE NotConstructed]
    /\ grp = [g \in Groups |-> NewGroup(DefaultGroupOptions)]
    /\ attributes = [g \in Groups |-> NewAttributes]
    /\ timers = <<>>
    /\ last = Call("new Group", NoGroup, 0, <<>>, FALSE)
    /\ hist = <<>>
    /\ calls = MaxResetCalls

NextReset ==
    \/ AddEmitter("g1", 1)
    \/ Tick("g1", Null)
    \/ Enable(1)
    \/ Disable(1)
    \/ \E force \in BOOLEAN : Reset(1, force)
    \/ SetMaxAgeValue(1, Scale)

SpecReset == InitReset /\ [][NextReset]_vars


\* ------------------------------------------------------------- properties
\* The emitters attached to group g, and the slots an emitter's offset and
\* particle count name.
Members(g) == Range(grp[g].emitters)
SlotRange(m) == m.attributeOffset..(m.attributeOffset + m.particleCount - 1)

\* The values a channel's typed array holds in the slots of the emitter
\* record m, one after the other.
SlotValues(sa, m, componentSize) ==
    [k \in 0..(m.particleCount * componentSize - 1) |->
        ArrGet(sa.mem, ViewOf(The(sa.a.typedArray)),
               (m.attributeOffset * componentSize + k) * Scale)]

\* The step is the call op(g, e) or op(e).
IsCall(op, g, e) ==
    calls' # calls /\ last'.op = op /\ last'.g = g /\ last'.e = e

\* The last call was an addEmitter that attached its emitter.
Added ==
    /\ last.op = "addEmitter"
    /\ last.e \in Members(last.g)
    /\ last.log \in {<<>>, <<"SPE.Group: maxParticleCount exceeded.">>}

\* C1: after any sequence of addEmitter and removeEmitter calls, the slot
\* ranges [attributeOffset, attributeOffset + particleCount) of any two
\* distinct emitters attached to the group are disjoint.
C1_SlotRangesDisjoint ==
    \A a, b \in Members("g1") :
        a # b => SlotRange(em[a]) \cap SlotRange(em[b]) = {}

\* C2: when emitter a, added before emitter b, is removed with
\* removeEmitter, b's attributeOffset, activation cursor and activation end
\* each go down by a's particleCount, and every channel holds at b's new
\* slots the values it held at b's slots before.
C2_LaterEmitterShiftsDown ==
    [][\A a, b \in Emitters :
          (/\ IsCall("removeEmitter", "g1", a)
           /\ IndexOf(grp["g1"].emitters, a) > -1
           /\ IndexOf(grp["g1"].emitters, b) > IndexOf(grp["g1"].emitters, a))
          => /\ em'[b].attributeOffset = em[b].attributeOffset - em[a].particleCount
             /\ em'[b].activationIndex =
                    em[b].activationIndex - em[a].particleCount * Scale
             /\ em'[b].activationEnd = em[b].activationEnd - em[a].particleCount
             /\ \A c \in Channels :
                    SlotValues(attributes'["g1"][c], em'[b], ComponentSize(c))
                        = SlotValues(attributes["g1"][c], em[b], ComponentSize(c))]_vars

\* C3: with no maxParticleCount declared, after an addEmitter that attached
\* its emitter every channel's array holds at least particleCount x
\* componentSize elements, whatever adds and removes came before.
C3_BuffersCoverParticleCount ==
    (Added /\ IsNull(grp["g1"].maxParticleCount))
    => \A c \in Channels :
           getLength(attributes["g1"][c].a)
               >= grp["g1"].particleCount * ComponentSize(c)

\* The last call was an addEmitter that attached its emitter and took the
\* group's particle count past the declared maxParticleCount.
Exceeding ==
    /\ Added
    /\ ~IsNull(grp[last.g].maxParticleCount)
    /\ grp[last.g].particleCount > The(grp[last.g].maxParticleCount)

\* The emitter of the last call is a member of the call's group with the
\* group's last slots as its range.
Attached ==
    /\ last.e \in Members(last.g)
    /\ em[last.e].group = last.g
    /\ em[last.e].attributeOffset
           = grp[last.g].particleCount - em[last.e].particleCount
    /\ em[last.e].activationEnd = grp[last.g].particleCount

C5_RejectedAddIsNoOp ==
    [][\A g \in Groups, e \in Emitters :
          (IsCall("addEmitter", g, e) /\ (e \in Members(g) \/ em[e].group # NoGroup))
          => UNCHANGED <<em, grp, attributes, timers>>]_vars

\* addEmitter on g1 was called with an emitter that belongs to g2.
C5_Witness ==
    /\ last.op = "addEmitter"
    /\ last.g = "g1"
    /\ em[last.e].group = "g2"
    /\ last.e \in Members("g2")
    /\ grp["g1"].particleCount > 0

\* C6: removeEmitter(e) on a group e is no member of, and Emitter.remove()
\* on an emitter without a group, change nothing (emitter list, particle
\* count, channel buffers, pool, refresh flag) and throw nothing.
C6_RejectedRemoveIsNoOp ==
    [][/\ \A g \in Groups, e \in Emitters :
              (IsCall("removeEmitter", g, e) /\ e \notin Members(g))
              => (UNCHANGED <<em, grp, attributes, timers>> /\ ~last'.threw)
       /\ \A e \in Emitters :
              (IsCall("remove", NoGroup, e) /\ em[e].group = NoGroup)
              => (UNCHANGED <<em, grp, attributes, timers>> /\ ~last'.threw)]_vars

\* removeEmitter on g1 was called with an emitter that belongs to g2, g1
\* holding emitters of its own.
C6_Witness ==
    /\ last.op = "removeEmitter"
    /\ last.g = "g1"
    /\ em[last.e].group = "g2"
    /\ grp["g1"].particleCount > 0
    /\ ~last.threw


\* A timer set by triggerPoolEmitter for emitter e is pending.
Pending(e) == \E i \in 1..Len(timers) : timers[i].emitter = e

\* Emitter e lies in the pool of g1, not alive and of age 0.
Dormant(e) ==
    /\ e \in Range(grp["g1"].pool)
    /\ ~em[e].alive
    /\ em[e].age = 0

\* C7: once triggerPoolEmitter has taken and enabled a pooled emitter, with
\* the timer fair the callback set for max(duration, maxAge.value +
\* maxAge.spread) seconds fires in the end, and when it has fired the emitter
\* is not alive, of age 0 and in the pool, where a later trigger can take
\* it; so it is however the callback and the ticks interleave.
C7_TriggeredEmitterReturnsToPool ==
    /\ \A e \in Emitters : Pending(e) ~> Dormant(e)
    /\ [][\A e \in Emitters :
             /\ (IsCall("triggerPoolEmitter", "g1", 1) /\ ~Pending(e) /\ Pending(e)')
                => /\ e \in Range(grp["g1"].pool)
                   /\ em'[e].alive
                   /\ \E i \in 1..Len(timers') :
                          /\ timers'[i].emitter = e
                          /\ timers'[i].delay
                                 = 1000 * Max(em[e].duration,
                                              em[e].maxAge.value + em[e].maxAge.spread)
             /\ (Pending(e) /\ ~Pending(e)') => Dormant(e)']_vars

\* The callback of an emitter has fired after the group was ticked with the
\* emitter alive, and the emitter lies dormant in the pool.
C7_Witness ==
    /\ last.op = "timeout"
    /\ Dormant(last.e)
    /\ grp["g1"].uniforms.runTime > 0
    /\ em[last.e].activeParticleCount > 0

\* C8: triggerPoolEmitter on an empty pool, growth not allowed, drops the
\* request: it throws nothing, enables no emitter, sets no timer and leaves
\* the pool, the emitter list and the buffers as they were.
C8_EmptyPoolTriggerIsDropped ==
    [][(/\ calls' # calls
        /\ last'.op = "triggerPoolEmitter"
        /\ grp["g1"].pool = <<>>
        /\ ~grp["g1"].createNewWhenPoolEmpty)
       => (~last'.threw /\ UNCHANGED <<em, grp, attributes, timers>>)]_vars

\* The emitters a step takes out of the pool of g1.
Taken == Range(grp["g1"].pool) \ Range(grp'["g1"].pool)

\* releaseIntoPool puts an emitter at the front of the pool: the emitter
\* released last is the first of the pool, the one released first the last.
ReleasedLast(pool) == pool[1]
ReleasedFirst(pool) == pool[Len(pool)]

\* C9, as the specification states it: with two or more emitters in the
\* pool, triggerPoolEmitter takes the emitter releaseIntoPool placed there
\* last.
C9_PoolIsLIFO ==
    [][(IsCall("triggerPoolEmitter", "g1", 1) /\ Len(grp["g1"].pool) >= 2)
       => Taken = {ReleasedLast(grp["g1"].pool)}]_vars

\* C9: with two or more emitters in the pool, triggerPoolEmitter takes the
\* emitter that has been in the pool the longest, the one releaseIntoPool
\* placed there first; the others stay, in their order.
C9_PoolIsFIFO ==
    [][(IsCall("triggerPoolEmitter", "g1", 1) /\ Len(grp["g1"].pool) >= 2)
       => /\ Taken = {ReleasedFirst(grp["g1"].pool)}
          /\ grp'["g1"].pool = SubSeq(grp["g1"].pool, 1, Len(grp["g1"].pool) - 1)
          /\ em'[ReleasedFirst(grp["g1"].pool)].alive]_vars

\* An emitter was taken from a pool that an earlier callback had released
\* another emitter into: the pool still holds an emitter, one timer has
\* fired and one is pending.
C9_Witness ==
    /\ last.op = "triggerPoolEmitter"
    /\ last.e = 1
    /\ ~last.threw
    /\ Len(grp["g1"].pool) >= 1
    /\ Len(timers) = 1
    /\ \E e \in Range(grp["g1"].pool) : em[e].updateFlags["position"]

\* C10: for an attached emitter that is not static, of any particleCount >=
\* 1, after every tick 0 <= activeParticleCount <= particleCount.
C10_ActiveCountWithinBounds ==
    \A e \in Members("g1") :
        ~em[e].isStatic
        => /\ em[e].activeParticleCount >= 0
           /\ em[e].activeParticleCount <= em[e].particleCount

\* --------------------------------------------------------------- slot lives
\* Component j of slot i of the params channel of group g in the memory the
\* attribute map v holds, as emitter e sees it: 0 the alive flag, 1 the age,
\* 2 the max-age.
Param(v, g, e, i, j) == ArrGet(v[g]["params"].mem, ParamsView(g, e), (i * 4 + j) * Scale)
SlotAlive(v, g, e, i) == ~StrictEq(Param(v, g, e, i, 0), 0)

\* The step is a tick of group g, and the step it simulates with.
IsTick(g) == IsCall("tick", g, 0)
StepOf(g) == grp'[g].uniforms.deltaTime

\* The age of slot i of emitter e a step dt further.
Aged(v, g, e, i, dt) ==
    IF em[e].direction = 1
    THEN Add(Param(v, g, e, i, 1), dt)
    ELSE Sub(Param(v, g, e, i, 1), dt)

\* Slot i of emitter e is alive with the age of a particle placed by a tick of
\* step dt: less than dt from the start of its life.
Restarted(v, g, e, i, dt) ==
    /\ SlotAlive(v, g, e, i)
    /\ IF em[e].direction = 1
       THEN Param(v, g, e, i, 1) < dt
       ELSE Param(v, g, e, i, 1) > Param(v, g, e, i, 2) - dt

\* The max-ages assignParamsValue can sample for a slot of the emitter m.
SampledMaxAges(m) ==
    {Abs(randomFloat(m.maxAge.value, m.maxAge.spread, r)) : r \in DrawsFor(m.maxAge.spread)}

\* Emitter e is attached to g1 on its own and is not static.
Single(e) == Members("g1") = {e} /\ ~em[e].isStatic

\* C11: with a single attached emitter that is not static, a tick of step
\* dt > 0 marks dead every alive slot whose age the step takes across its
\* sampled max-age (age >= maxAge forward, age <= 0 reversed), unless it
\* places a new particle there at once, and marks dead no slot whose age the
\* step does not take that far; it does so whether the emitter is alive or
\* not.
C11_SlotDiesAtSampledMaxAge ==
    [][\A e \in Emitters, i \in 0..MaxCount :
          (/\ IsTick("g1")
           /\ Single(e)
           /\ i \in SlotRange(em[e])
           /\ StepOf("g1") > 0
           /\ SlotAlive(attributes, "g1", e, i))
          => IF em[e].direction = 1
             THEN /\ (\A a \in SampledMaxAges(em[e]) :
                          Ge(Aged(attributes, "g1", e, i, StepOf("g1")), a))
                     => \/ ~SlotAlive(attributes', "g1", e, i)
                        \/ Restarted(attributes', "g1", e, i, StepOf("g1"))
                  /\ ~SlotAlive(attributes', "g1", e, i)
                     => \E a \in SampledMaxAges(em[e]) :
                            Ge(Aged(attributes, "g1", e, i, StepOf("g1")), a)
             ELSE /\ Le(Aged(attributes, "g1", e, i, StepOf("g1")), 0)
                     => \/ ~SlotAlive(attributes', "g1", e, i)
                        \/ Restarted(attributes', "g1", e, i, StepOf("g1"))
                  /\ ~SlotAlive(attributes', "g1", e, i)
                     => Le(Aged(attributes, "g1", e, i, StepOf("g1")), 0)]_vars

\* The slots the ticks on record took from dead to alive.
SumActivated(h) ==
    LET S[k \in 0..Len(h)] == IF k = 0 THEN 0 ELSE S[k - 1] + h[k].activated
    IN  S[Len(h)]

\* The last k ticks on record, and whether they all took the same step.
LastTicks(k) == SubSeq(hist, Len(hist) - k + 1, Len(hist))
SameStep(h) == \A a, b \in 1..Len(h) : h[a].dt = h[b].dt

\* The ticks on record span the max-age the emitter record m emits by: its
\* maxAge value and spread, in k ticks of one step.
SpansMaxAge(m, k) ==
    /\ k \in 1..Len(hist)
    /\ SameStep(LastTicks(k))
    /\ k * hist[Len(hist)].dt = m.maxAge.value + m.maxAge.spread

\* The most slots a tick of step dt activates for the emitter record m: the
\* width particlesPerSecond * dt of the activation window, rounded up.
Batch(m, dt) == (Mul(m.particlesPerSecond, dt) + Scale - 1) \div Scale

Distance(x, y) == IF x >= y THEN x - y ELSE y - x

\* C12: with a single emitter, alive and of no duration, its activeMultiplier
\* 1, the slots that go from dead to alive over any run of ticks of one step
\* that spans one full max-age are as many as particleCount, up to the
\* number of slots one tick activates.
C12_EmissionRate ==
    \A e \in Emitters, k \in 1..MaxRunCalls :
        (/\ Single(e)
         /\ em[e].alive
         /\ em[e].duration = NoDuration * Scale
         /\ em[e].activeMultiplier = Scale
         /\ SpansMaxAge(em[e], k))
        => Distance(SumActivated(LastTicks(k)), em[e].particleCount)
               <= Batch(em[e], hist[Len(hist)].dt)

\* Two slots were activated over four ticks of half a second, one in each
\* second.
C12_Witness ==
    /\ Single(1)
    /\ em[1].particleCount = 2
    /\ SpansMaxAge(em[1], 4)
    /\ SumActivated(LastTicks(4)) = 2
    /\ hist[Len(hist)].activated = 0


\* ------------------------------------------------------ emitters not alive
\* Component j of slot i of the params channel of group g in the attribute
\* map v, as the channel's typed array holds it.
ChannelParam(v, g, i, j) ==
    ArrGet(v[g]["params"].mem, ViewOf(The(v[g]["params"].a.typedArray)), (i * 4 + j) * Scale)
ChannelAlive(v, g, i) == ~StrictEq(ChannelParam(v, g, i, 0), 0)

\* The age the channel holds for slot i of emitter e, a step dt further.
ChannelAged(v, g, e, i, dt) ==
    IF em[e].direction = 1
    THEN Add(ChannelParam(v, g, i, 1), dt)
    ELSE Sub(ChannelParam(v, g, i, 1), dt)
ChannelCrosses(v, g, e, i, dt) ==
    IF em[e].direction = 1
    THEN Ge(ChannelAged(v, g, e, i, dt), ChannelParam(v, g, i, 2))
    ELSE Le(ChannelAged(v, g, e, i, dt), 0)

\* C13: while an attached emitter that is not static is not alive, a tick
\* activates none of its slots, sets its age to 0 and leaves its activation
\* cursor where it was, and the slots that are alive keep ageing: a slot
\* whose age the step takes across its max-age is marked dead, any other is a
\* step older.
C13_DormantEmitterOnlyAges ==
    [][\A e \in Emitters, i \in 0..(MaxEmitters * MaxCount) :
          (/\ IsTick("g1")
           /\ e \in Members("g1")
           /\ ~em[e].isStatic
           /\ ~em[e].alive
           /\ i \in SlotRange(em[e]))
          => /\ ~em'[e].alive
             /\ em'[e].age = 0
             /\ em'[e].activationIndex = em[e].activationIndex
             /\ IF ~ChannelAlive(attributes, "g1", i)
                THEN ~ChannelAlive(attributes', "g1", i)
                ELSE IF ChannelCrosses(attributes, "g1", e, i, StepOf("g1"))
                THEN ~ChannelAlive(attributes', "g1", i)
                ELSE /\ ChannelAlive(attributes', "g1", i)
                     /\ ChannelParam(attributes', "g1", i, 1)
                            = ChannelAged(attributes, "g1", e, i, StepOf("g1"))]_vars


\* ----------------------------------------------------------------- duration
\* Emitter e has a finite duration.
HasDuration(e) == em[e].duration # NoDuration * Scale

\* The activation cursor of the emitter record m once a tick of step dt has
\* moved it on: back at the emitter's first slot once it has passed the last.
CursorAfter(m, dt) ==
    IF m.activationIndex + Mul(Mul(m.particlesPerSecond, m.activeMultiplier), dt)
           > (m.attributeOffset + m.particleCount) * Scale
    THEN m.attributeOffset * Scale
    ELSE m.activationIndex + Mul(Mul(m.particlesPerSecond, m.activeMultiplier), dt)

\* C14: an alive emitter of finite duration D goes dormant (not alive, age 0,
\* no slot activated, the cursor where it was) on the first tick at whose
\* start its age exceeds D; until then every tick leaves it alive, a step
\* older and its cursor moved on.  Once dormant it stays so under every tick,
\* and only enable() makes it alive again, at age 0, whereupon it emits again
\* until its age once more exceeds D.
C14_DurationMakesDormant ==
    [][\A e \in Emitters :
          (e \in Members("g1") /\ ~em[e].isStatic /\ HasDuration(e))
          => /\ (IsTick("g1") /\ em[e].alive /\ em[e].age > em[e].duration)
                => /\ ~em'[e].alive
                   /\ em'[e].age = 0
                   /\ em'[e].activationIndex = em[e].activationIndex
                   /\ \A i \in SlotRange(em[e]) :
                          SlotAlive(attributes', "g1", e, i) => SlotAlive(attributes, "g1", e, i)
             /\ (IsTick("g1") /\ em[e].alive /\ em[e].age <= em[e].duration)
                => /\ em'[e].alive
                   /\ em'[e].age = em[e].age + StepOf("g1")
                   /\ em'[e].activationIndex = CursorAfter(em[e], StepOf("g1"))
             /\ (IsTick("g1") /\ ~em[e].alive)
                => /\ ~em'[e].alive
                   /\ em'[e].age = 0
             /\ (~em[e].alive /\ em'[e].alive)
                => /\ IsCall("enable", "g1", e)
                   /\ em'[e].age = 0
             /\ IsCall("enable", "g1", e) => em'[e].alive]_vars

\* The emitter emitted, went dormant, was enabled, emitted again and is
\* dormant again: slots were activated by the first tick and by the last
\* but one, none by the last.
C14_Witness ==
    /\ Single(1)
    /\ HasDuration(1)
    /\ ~em[1].alive
    /\ em[1].age = 0
    /\ last.op = "tick"
    /\ Len(hist) >= 5
    /\ hist[1].activated > 0
    /\ hist[Len(hist) - 2].activated = 0
    /\ hist[Len(hist) - 1].activated > 0
    /\ hist[Len(hist)].activated = 0

\* ------------------------------------------------------------ upload ranges
\* The elements the typed array of channel c of group g holds in the
\* attribute map v.
Contents(v, g, c) == Elements(v[g][c].mem, ViewOf(The(v[g][c].a.typedArray)))

\* The slots of channel c of g1 the step has written a new value to.
Written(c) ==
    {i \in 0..(MaxEmitters * MaxCount) :
        \E j \in 0..(ComponentSize(c) - 1) :
            /\ i * ComponentSize(c) + j < Len(Contents(attributes, "g1", c))
            /\ Contents(attributes, "g1", c)[i * ComponentSize(c) + j + 1]
                   # Contents(attributes', "g1", c)[i * ComponentSize(c) + j + 1]}

Lowest(S) == CHOOSE i \in S : \A k \in S : i <= k
Highest(S) == CHOOSE i \in S : \A k \in S : i >= k

\* The range of elements the BufferAttribute of channel c of group g asks
\* the renderer to upload, in the attribute map v.
UploadRange(v, g, c) == The(v[g][c].a.bufferAttribute).updateRange

\* The step is a tick of g1 with emitters attached and no full refresh
\* pending.
IsPlainTick ==
    /\ IsTick("g1")
    /\ Members("g1") # {}
    /\ ~grp["g1"].attributesNeedRefresh

\* C15: after a tick with no full refresh pending, the upload range of a
\* channel is the inclusive envelope of the slots the tick has written in
\* it: it starts at the lowest of them and ends with the highest, each times
\* the component size, and is no larger.
C15_UploadRangeIsEnvelope ==
    [][\A c \in Channels :
          (IsPlainTick /\ Written(c) # {})
          => UploadRange(attributes', "g1", c)
                 = [offset |-> Lowest(Written(c)) * ComponentSize(c) * Scale,
                    count |-> (Highest(Written(c)) - Lowest(Written(c)) + 1)
                                  * ComponentSize(c) * Scale]]_vars

\* C16: a tick with emitters attached and no full refresh pending leaves the
\* dirty range of a channel it has written no slot of empty, and asks for no
\* upload of it: the upload range and the needs-update mark of its
\* BufferAttribute stay as they were.
C16_UntouchedChannelNotUploaded ==
    [][\A c \in Channels :
          (IsPlainTick /\ Written(c) = {})
          => /\ attributes'["g1"][c].a.updateMin = 0
             /\ attributes'["g1"][c].a.updateMax = 0
             /\ UploadRange(attributes', "g1", c) = UploadRange(attributes, "g1", c)
             /\ The(attributes'["g1"][c].a.bufferAttribute).needsUpdate
                    = The(attributes["g1"][c].a.bufferAttribute).needsUpdate]_vars

\* ------------------------------------------------------------ the time step
\* The step tick(dt) is to simulate with: dt when it is given, fixedTimeStep
\* when it is not.
GivenStep(dt) == IF IsNull(dt) THEN grp["g1"].fixedTimeStep ELSE The(dt)

\* C17: Group.tick(dt) simulates with dt whenever dt is given, 0 included, and
\* with fixedTimeStep when it is not; on every call, the group idle or not,
\* runTime goes up by that step and deltaTime is set to it.
C17_TickUsesGivenStep ==
    [][\A dt \in LifeTickArgs :
          Tick("g1", dt)
          => /\ grp'["g1"].uniforms.deltaTime = GivenStep(dt)
             /\ grp'["g1"].uniforms.runTime = grp["g1"].uniforms.runTime + GivenStep(dt)]_vars


\* ------------------------------------------------------- refresh of buffers
\* The BufferAttribute of channel c of group g in the attribute map v.
BufferAttributeOf(v, g, c) == The(v[g][c].a.bufferAttribute)

\* The usage hint resetDynamic gives the BufferAttribute of a channel.
OwnUsage(v, g, c) ==
    IF v[g][c].a.dynamicBuffer THEN DynamicDrawUsage ELSE StaticDrawUsage

\* The step is an addEmitter or a removeEmitter on g1 that has changed the
\* emitters of the group.
ChangesMembers ==
    /\ calls' # calls
    /\ last'.op \in {"addEmitter", "removeEmitter"}
    /\ last'.g = "g1"
    /\ grp'["g1"].emitters # grp["g1"].emitters

\* C18: an addEmitter or removeEmitter that changes the emitters of the group
\* leaves a full refresh pending.  The next tick then makes every channel
\* upload its whole buffer (offset 0, count -1, static usage, the typed
\* array as it is), clears the refresh flag and arms the dynamic reset; a
\* tick with only the dynamic reset pending restores the usage hints and
\* clears that flag.  The refresh flag is false after every tick, and with
\* both pending the dynamic reset comes first, so that the refresh prevails.
C18_RefreshThenDynamicReset ==
    [][/\ ChangesMembers => grp'["g1"].attributesNeedRefresh
       /\ IsTick("g1")
          => /\ ~grp'["g1"].attributesNeedRefresh
             /\ grp["g1"].attributesNeedRefresh
                => /\ grp'["g1"].attributesNeedDynamicReset
                   /\ \A c \in Channels :
                          /\ BufferAttributeOf(attributes', "g1", c).updateRange
                                 = [offset |-> 0, count |-> -Scale]
                          /\ BufferAttributeOf(attributes', "g1", c).usage = StaticDrawUsage
                          /\ BufferAttributeOf(attributes', "g1", c).needsUpdate
                          /\ BufferAttributeOf(attributes', "g1", c).array
                                 = ViewOf(The(attributes'["g1"][c].a.typedArray))
             /\ (~grp["g1"].attributesNeedRefresh /\ grp["g1"].attributesNeedDynamicReset)
                => /\ ~grp'["g1"].attributesNeedDynamicReset
                   /\ \A c \in Channels :
                          BufferAttributeOf(attributes', "g1", c).usage
                              = OwnUsage(attributes', "g1", c)]_vars

\* A tick has run with the refresh and the dynamic reset both pending: the
\* first emitter was ticked once before the second was added, and the one
\* tick since has left every channel static and the dynamic reset armed.
C18_Witness ==
    /\ last.op = "tick"
    /\ Cardinality(Members("g1")) = 2
    /\ Len(hist) = 1
    /\ grp["g1"].uniforms.runTime = 2 * grp["g1"].fixedTimeStep
    /\ \E e \in Members("g1") : em[e].age = 2 * grp["g1"].fixedTimeStep
    /\ grp["g1"].attributesNeedDynamicReset
    /\ ~grp["g1"].attributesNeedRefresh
    /\ \A c \in Channels : BufferAttributeOf(attributes, "g1", c).usage = StaticDrawUsage

\* ------------------------------------------------------------ shader flags
RotationFlags ==
    {"SHOULD_ROTATE_TEXTURE", "SHOULD_ROTATE_PARTICLES", "SHOULD_WIGGLE_PARTICLES"}

\* C19: a shader flag that is true stays true under every addEmitter,
\* removeEmitter, property setter and tick.
C19_FlagsMonotonic ==
    [][\A f \in RotationFlags, g \in Groups :
          grp[g].defines[f] => grp'[g].defines[f]]_vars

\* The emitter whose rotation had set SHOULD_ROTATE_PARTICLES has been
\* removed, no emitter attached rotates, and the flag is still set.
C19_Witness ==
    /\ last.op = "removeEmitter"
    /\ ~last.threw
    /\ last.log = <<>>
    /\ grp["g1"].defines["SHOULD_ROTATE_PARTICLES"]
    /\ \A e \in Members("g1") :
           em[e].rotation.angle = 0 /\ em[e].rotation.angleSpread = 0

\* C20: once addEmitter(e) has attached e, SHOULD_ROTATE_PARTICLES is true if
\* e's rotation.angle or angleSpread is not 0, SHOULD_WIGGLE_PARTICLES if its
\* wiggle.value or spread is not 0, and SHOULD_ROTATE_TEXTURE, the group
\* using no sprite sheet, if its angle value or spread is not 0, a negative
\* value counting like a positive one.
C20_NonzeroOptionSetsFlag ==
    [][\A e \in Emitters :
          (IsCall("addEmitter", "g1", e) /\ e \notin Members("g1") /\ e \in Range(grp'["g1"].emitters))
          => /\ (em[e].rotation.angle # 0 \/ em[e].rotation.angleSpread # 0)
                => grp'["g1"].defines["SHOULD_ROTATE_PARTICLES"]
             /\ (em[e].wiggle.value # 0 \/ em[e].wiggle.spread # 0)
                => grp'["g1"].defines["SHOULD_WIGGLE_PARTICLES"]
             /\ (/\ ~grp["g1"].defines["SHOULD_CALCULATE_SPRITE"]
                 /\ (em[e].angle.value # 0 \/ em[e].angle.spread # 0))
                => grp'["g1"].defines["SHOULD_ROTATE_TEXTURE"]]_vars


\* --------------------------------------------------------- property setters
\* C21: when the rotation.angle setter of an attached emitter has returned
\* and the angle it stored is not 0, SHOULD_ROTATE_PARTICLES of the emitter's
\* group is true.
C21_SetterRecomputesFlags ==
    [][\A e \in Emitters :
          (/\ IsCall("rotation.angle", "g1", e)
           /\ ~last'.threw
           /\ em'[e].rotation.angle # 0)
          => grp'["g1"].defines["SHOULD_ROTATE_PARTICLES"]]_vars

\* The call is one of the value and spread setters of emitter e, attached to
\* g1, and prop is its property.
IsValueSetter(e, prop) ==
    \/ prop = "position" /\ IsCall("position.value", "g1", e)
    \/ prop = "position" /\ IsCall("position.spread", "g1", e)
    \/ prop = "maxAge" /\ IsCall("maxAge.value", "g1", e)

\* C22: a value or spread setter of an attached emitter sets the rewrite
\* flag of the mapped channel and zeroes its rewrite count, and leaves the
\* rewrite flags and counts of the other channels and all reset flags as
\* they were; the randomize setter stores its argument as the reset flag of
\* the mapped channel and leaves the other reset flags, all rewrite flags,
\* all rewrite counts and the buffers as they were.
C22_SetterFlagsFrame ==
    [][\A e \in Emitters :
          /\ \A prop \in {"position", "maxAge"} :
                 IsValueSetter(e, prop)
                 => /\ em'[e].updateFlags[updateMap(prop)]
                    /\ em'[e].updateCounts[updateMap(prop)] = 0
                    /\ em'[e].resetFlags = em[e].resetFlags
                    /\ \A c \in Channels \ {updateMap(prop)} :
                           /\ em'[e].updateFlags[c] = em[e].updateFlags[c]
                           /\ em'[e].updateCounts[c] = em[e].updateCounts[c]
          /\ IsCall("position.randomize", "g1", e)
             => /\ em'[e].resetFlags["position"] = em'[e].position.randomize
                /\ \A c \in Channels \ {"position"} :
                       em'[e].resetFlags[c] = em[e].resetFlags[c]
                /\ em'[e].updateFlags = em[e].updateFlags
                /\ em'[e].updateCounts = em[e].updateCounts
                /\ attributes' = attributes]_vars

\* position.randomize has been set to true while a rewrite of the params
\* channel was under way: the reset flag of position is set, no rewrite of
\* position is asked for and the rewrite of params stands as it was.
C22_Witness ==
    /\ last.op = "position.randomize"
    /\ ~last.threw
    /\ em[1].resetFlags["position"]
    /\ ~em[1].updateFlags["position"]
    /\ em[1].updateFlags["params"]
    /\ em[1].updateCounts["params"] > 0

Repeated(arg) == [i \in 1..valueOverLifetimeLength |-> arg.items[1]]

\* The last call was the value (spread) setter of opacity on emitter 1,
\* attached to g1, and it has stored what the argument arg makes it store.
ValuePassed(arg) ==
    /\ last.op = "opacity.value"
    /\ last.g = "g1"
    /\ ~last.threw
    /\ em[1].opacity.value = WithValue(em[1].opacity, arg)

SpreadPassed(arg) ==
    /\ last.op = "opacity.spread"
    /\ last.g = "g1"
    /\ ~last.threw
    /\ em[1].opacity.spread = WithSpread(em[1].opacity, arg)

\* C24: the value (spread) setter of opacity on an attached emitter stores,
\* for a number or an array of one element, that element at every index, and
\* for an array that has the length of the values over lifetime the array as
\* it is; and what it has stored is what passing the stored array again would
\* store.
C24_NormalizationIdempotent ==
    \A arg \in CurveArgs :
        /\ ValuePassed(arg)
           => /\ Len(arg.items) = 1 => em[1].opacity.value = Repeated(arg)
              /\ Len(arg.items) = valueOverLifetimeLength
                 => em[1].opacity.value = arg.items
              /\ WithValue(em[1].opacity, ArrayArg(em[1].opacity.value))
                     = em[1].opacity.value
        /\ SpreadPassed(arg)
           => /\ Len(arg.items) = 1 => em[1].opacity.spread = Repeated(arg)
              /\ Len(arg.items) = valueOverLifetimeLength
                 => em[1].opacity.spread = arg.items
              /\ WithSpread(em[1].opacity, ArrayArg(em[1].opacity.spread))
                     = em[1].opacity.spread

\* The value setter of opacity was passed 0 or [0] on an emitter whose
\* opacity was 1 by default: every entry is 0.
C24_Witness ==
    /\ last.op = "opacity.value"
    /\ ~last.threw
    /\ em[1].opacity.value = [i \in 1..valueOverLifetimeLength |-> 0]
    /\ em[1].opacity.spread = [i \in 1..valueOverLifetimeLength |-> 0]

\* ------------------------------------------------------------ emission rate
\* The longest life of a particle of the emitter record m, in seconds.
TotalMaxAge(m) == m.maxAge.value + m.maxAge.spread

\* C25: an addEmitter that attaches e sets its particlesPerSecond to
\* particleCount / (maxAge.value + maxAge.spread) if e has no duration, and
\* to particleCount over the smaller of that sum and the duration if it has.
C25_EmissionRateOnAdd ==
    [][\A e \in Emitters :
          (/\ IsCall("addEmitter", "g1", e)
           /\ e \notin Members("g1")
           /\ e \in Range(grp'["g1"].emitters))
          => em'[e].particlesPerSecond =
                 IF em[e].duration = NoDuration * Scale
                 THEN PerSecond(em[e].particleCount, TotalMaxAge(em[e]))
                 ELSE PerSecond(em[e].particleCount,
                                Min(TotalMaxAge(em[e]), em[e].duration))]_vars

\* An emitter of two particles that live two seconds and of a duration of
\* half a second has been attached: it emits four particles per second.
C25_Witness ==
    /\ last.op = "addEmitter"
    /\ ~last.threw
    /\ 1 \in Members("g1")
    /\ em[1].particleCount = 2
    /\ em[1].duration = Scale \div 2
    /\ TotalMaxAge(em[1]) = 2 * Scale
    /\ em[1].particlesPerSecond = 4 * Scale

\* -------------------------------------------------------- allocation cursor
\* C26: the offset the next emitter added to a group receives, the group's
\* particleCount, never decreases under addEmitter and removeEmitter.
C26_CursorMonotonic ==
    [][\A g \in Groups : grp'[g].particleCount >= grp[g].particleCount]_vars

\* ------------------------------------------------------ activation of slots
\* Component j of slot i of channel c of group g in the attribute map v.
ChannelValue(v, g, c, i, j) ==
    ArrGet(v[g][c].mem, ViewOf(The(v[g][c].a.typedArray)),
           (i * ComponentSize(c) + j) * Scale)

\* The scaled indices the loop of _activateParticles of the emitter record m
\* runs over in a tick with step dt.
WindowOf(m, dt) ==
    LET start == IF m.particleCount = 1 THEN m.activationIndex
                 ELSE Trunc(m.activationIndex) * Scale
        end == Min(start + Mul(Mul(m.particlesPerSecond, m.activeMultiplier), dt),
                   m.activationEnd * Scale)
    IN  {iS \in start..(end - 1) : (iS - start) % Scale = 0}

\* The step is a tick of g1 in which emitter e activates its slot i: the
\* emitter emits, its duration has not run out, the slot lies in the window
\* of the tick and was dead once the ages were checked, or the emitter has a
\* single particle.
Activates(e, i) ==
    /\ IsTick("g1")
    /\ e \in Members("g1")
    /\ ~em[e].isStatic
    /\ em[e].alive
    /\ ~(em[e].duration # NoDuration * Scale /\ em[e].age > em[e].duration)
    /\ i * Scale \in WindowOf(em[e], StepOf("g1"))
    /\ \/ em[e].particleCount = 1
       \/ StrictEq(AliveFlag(AfterAgeing("g1", e, StepOf("g1")), ParamsView("g1", e), i), 0)

\* The slots of emitter e.
SlotsOf(e) == em[e].attributeOffset..(em[e].attributeOffset + em[e].particleCount - 1)

\* The force of channel c in slot i of g1 points from the emitter's position
\* to the position the slot holds.
PointsFromPosition(v, m, c, i) ==
    \A j \in 0..2 :
        ChannelValue(v, "g1", c, i, j)
            = Sub(ChannelValue(v, "g1", "position", i, j), m.position.value)

\* C27: the velocity and the acceleration a slot is given on a sphere, when
\* addEmitter initializes it and when a tick activates it and assigns the
\* channel anew, point from the emitter's position to the position the slot
\* has when the call returns: the position is assigned first.
C27_PositionBeforeForces ==
    [][\A e \in Emitters, c \in {"velocity", "acceleration"} :
          /\ (/\ IsCall("addEmitter", "g1", e)
              /\ e \notin Members("g1")
              /\ e \in Range(grp'["g1"].emitters)
              /\ em[e].type = "sphere")
             => \A i \in em'[e].attributeOffset..(em'[e].attributeOffset + em'[e].particleCount - 1) :
                    PointsFromPosition(attributes', em'[e], c, i)
          /\ \A i \in SlotsOf(e) :
                 (/\ Activates(e, i)
                  /\ em[e].type = "sphere"
                  /\ em[e].resetFlags[c] \/ em[e].updateFlags[c])
                 => PointsFromPosition(attributes', em'[e], c, i)]_vars

\* The update range of emitter record m for channel c includes slot i.
Includes(m, c, i) ==
    /\ m.bufferUpdateRanges[c].min <= i * Scale
    /\ m.bufferUpdateRanges[c].max >= i * Scale

\* Channel c of emitter e is assigned anew when a slot is activated.
Reassigned(e, c) == em[e].resetFlags[c] \/ em[e].updateFlags[c]

Stagger(m, dt, i) ==
    LET start == IF m.particleCount = 1 THEN m.activationIndex
                 ELSE Trunc(m.activationIndex) * Scale
        end == Min(start + Mul(Mul(m.particlesPerSecond, m.activeMultiplier), dt),
                   m.activationEnd * Scale)
        activationCount == Trunc(end - m.activationIndex)
        dtPerParticle == IF activationCount > 0 THEN dt \div activationCount ELSE 0
    IN  dtPerParticle * ((i * Scale - start) \div Scale)

\* The slots of emitter e a tick of g1 finds alive and its check of the ages
\* leaves dead.
Dying(e) ==
    {i \in SlotsOf(e) :
        /\ ~StrictEq(AliveFlag(attributes["g1"]["params"].mem, ParamsView("g1", e), i), 0)
        /\ StrictEq(AliveFlag(AfterAgeing("g1", e, StepOf("g1")), ParamsView("g1", e), i), 0)}

\* C29: when a tick of g1 returns, every slot it has activated is flagged
\* alive and has the age of its place in the window, and the emitter's count
\* of active particles, for an emitter of more than one particle, has lost
\* the slots that died and gained one for each slot activated; so too while
\* a rewrite of the params channel is pending.
C29_ActivatedSlotAlive ==
    [][\A e \in Emitters :
          /\ \A i \in SlotsOf(e) :
                 Activates(e, i)
                 => /\ ChannelParam(attributes', "g1", i, 0) = Scale
                    /\ ChannelParam(attributes', "g1", i, 1)
                           = Stagger(em[e], StepOf("g1"), i)
          /\ (IsTick("g1") /\ e \in Members("g1") /\ em[e].particleCount > 1)
             => em'[e].activeParticleCount
                    = em[e].activeParticleCount - Cardinality(Dying(e))
                      + Cardinality({i \in SlotsOf(e) : Activates(e, i)})]_vars

\* The number of slots emitter e activates in the step, a tick of g1.
Wakes(e) == Cardinality({i \in SlotsOf(e) : Activates(e, i)})

\* C30: while a rewrite of the position or the params channel of an emitter
\* of more than one particle is pending, a tick adds to the rewrite count
\* one for each slot it activates; with the activation that brings the count
\* to particleCount the rewrite is over: the flag is cleared and the count
\* is 0 again.
C30_RewriteTakesOneCycle ==
    [][\A e \in Emitters, c \in {"position", "params"} :
          (/\ IsTick("g1")
           /\ e \in Members("g1")
           /\ em[e].particleCount > 1
           /\ em[e].updateFlags[c])
          => IF Wakes(e) > 0 /\ em[e].updateCounts[c] + Wakes(e) >= em[e].particleCount
             THEN ~em'[e].updateFlags[c] /\ em'[e].updateCounts[c] = 0
             ELSE /\ em'[e].updateFlags[c]
                  /\ em'[e].updateCounts[c] = em[e].updateCounts[c] + Wakes(e)]_vars

\* ---------------------------------------------------------------------
\* The ages given on activation, the activation cursor, the capacity of the
\* channels, the pool and the counters.

\* C31: every slot a tick of g1 with step dt activates is given an age within
\* the tick: dt / activationCount times its place in the batch, at least 0
\* and less than dt, when the emitter runs forward, and its max-age less such
\* a value when the emitter runs in reverse.
C31_InitialAgeWithinTick ==
    [][\A e \in Emitters : \A i \in SlotsOf(e) :
          Activates(e, i)
              => /\ Ge(Stagger(em[e], StepOf("g1"), i), 0)
                 /\ Stagger(em[e], StepOf("g1"), i) < StepOf("g1")
                 /\ Param(attributes', "g1", e, i, 1)
                        = IF em[e].direction = 1
                          THEN Stagger(em[e], StepOf("g1"), i)
                          ELSE Sub(Param(attributes', "g1", e, i, 2),
                                   Stagger(em[e], StepOf("g1"), i))]_vars

\* C32: when a tick of g1 returns, the activation cursor of every attached
\* emitter that is not static lies between the emitter's first slot and the
\* end of its range, the end included, and every index the tick's activation
\* loop has run over lies in the emitter's range.
C32_CursorInRange ==
    [][IsTick("g1")
          => \A e \in Members("g1") :
                 ~em[e].isStatic
                     => /\ em'[e].activationIndex >= em'[e].attributeOffset * Scale
                        /\ em'[e].activationIndex
                               <= (em'[e].attributeOffset + em'[e].particleCount) * Scale
                        /\ (/\ em[e].alive
                            /\ ~(em[e].duration # NoDuration * Scale
                                    /\ em[e].age > em[e].duration))
                               => \A iS \in WindowOf(em[e], StepOf("g1")) :
                                      /\ iS >= em[e].attributeOffset * Scale
                                      /\ iS < (em[e].attributeOffset + em[e].particleCount)
                                                  * Scale]_vars

\* A tick has taken the cursor of an emitter that does not start at slot 0
\* past the end of its range and back to its first slot.
C32_Witness ==
    /\ last.op = "tick"
    /\ \E e \in Members("g1") :
           /\ em[e].attributeOffset > 0
           /\ em[e].age > 0
           /\ em[e].activationIndex = em[e].attributeOffset * Scale

\* C33: when an addEmitter has attached its emitter, every channel's array,
\* which the call has passed through createBufferAttribute(n), holds exactly
\* n x componentSize elements, n being maxParticleCount where one is declared
\* and the group's particle count otherwise, whatever adds and removes (grow,
\* shrink, splice) came before.
C33_CapacityExact ==
    Added
    => \A c \in Channels :
           getLength(attributes[last.g][c].a)
               = BufferSlots(grp[last.g].maxParticleCount, grp[last.g].particleCount)
                     * ComponentSize(c)

\* C34: when removeEmitter splices the range [start, end) of an attached
\* emitter out of a channel whose array holds the range, the array is shorter
\* by (end - start) x componentSize elements, every element before the range
\* is as it was, and every element from the end of the range on has moved
\* down by the length of the range.
C34_SpliceMovesTail ==
    [][\A e \in Emitters, c \in Channels :
          (/\ IsCall("removeEmitter", "g1", e)
           /\ e \in Members("g1")
           /\ (em[e].attributeOffset + em[e].particleCount) * ComponentSize(c)
                  <= getLength(attributes["g1"][c].a))
          => LET start == em[e].attributeOffset * ComponentSize(c)
                 end == start + em[e].particleCount * ComponentSize(c)
                 size == getLength(attributes["g1"][c].a)
                 before == Elements(attributes["g1"][c].mem,
                                    ViewOf(The(attributes["g1"][c].a.typedArray)))
                 after == Elements(attributes'["g1"][c].mem,
                                   ViewOf(The(attributes'["g1"][c].a.typedArray)))
             IN  /\ Len(after) = size - (end - start)
                 /\ \A k \in 1..start : after[k] = before[k]
                 /\ \A k \in (end + 1)..size : after[k - (end - start)] = before[k]]_vars

\* The first of two attached emitters was removed: the slots of the second
\* had to move.
C34_Witness ==
    /\ last.op = "removeEmitter"
    /\ last.log = <<>>
    /\ calls = MaxCalls - 3
    /\ \E b \in Members("g1") : Members("g1") = {b} /\ em[b].attributeOffset > 0

\* The sum of particleCount over the emitters of the sequence ids.
RECURSIVE CountSum(_)
CountSum(ids) ==
    IF ids = <<>> THEN 0 ELSE em[Head(ids)].particleCount + CountSum(Tail(ids))

\* C35: after any calls of addEmitter and removeEmitter the group's particle
\* count is the sum of particleCount over the emitters attached to it, and
\* the draw range of the geometry, once an add or a remove has set it, is
\* [0, that count).
C35_CountIsSumOfAttached ==
    /\ grp["g1"].particleCount = CountSum(grp["g1"].emitters)
    /\ grp["g1"].geometry.attributes # {}
       => grp["g1"].geometry.drawRange
              = [start |-> 0, count |-> CountSum(grp["g1"].emitters)]

\* An emitter was removed from a group that keeps another.
C35_Witness ==
    /\ last.op \in {"removeEmitter", "remove"}
    /\ last.log = <<>>
    /\ grp["g1"].particleCount > 0
    /\ Len(grp["g1"].emitters) < 2

\* The emitters with a callback of triggerPoolEmitter pending.
Awaited == {e \in Emitters : Pending(e)}

C37_PooledEmittersAttached ==
    \A e \in Range(grp["g1"].pool) :
        e \in Members("g1") /\ em[e].group = "g1"

\* C38: in every tick of g1, the params array each attached emitter that is
\* not static has read and written is the array the group's params channel
\* holds when the tick returns, also when an addEmitter has resized the
\* channel since the emitter was first ticked.
C38_ParamsArrayCurrent ==
    [][IsTick("g1")
          => \A e \in Members("g1") :
                 ~em[e].isStatic
                     => em'[e].paramsArray
                            = Some(ViewOf(The(attributes'["g1"]["params"].a.typedArray)))]_vars

\* The elements of channel c of g1 the step has written a new value to.
WrittenElements(c) ==
    {k \in 0..(Len(Contents(attributes, "g1", c)) - 1) :
        Contents(attributes, "g1", c)[k + 1] # Contents(attributes', "g1", c)[k + 1]}

\* C39: after every tick of g1, every element of a channel the tick has
\* written lies inside the range the channel's BufferAttribute asks the
\* renderer to upload, a count of -1 asking for the whole array, however
\* many emitters the tick has simulated.
C39_UploadRangeCoversWrites ==
    [][(IsTick("g1") /\ Members("g1") # {})
          => \A c \in Channels : \A k \in WrittenElements(c) :
                 /\ UploadRange(attributes', "g1", c).offset <= k * Scale
                 /\ \/ UploadRange(attributes', "g1", c).count = -Scale
                    \/ k * Scale < UploadRange(attributes', "g1", c).offset
                                       + UploadRange(attributes', "g1", c).count]_vars

\* A tick with no full refresh pending has simulated two emitters with
\* particles alive.
C39_Witness ==
    /\ last.op = "tick"
    /\ Cardinality(Members("g1")) = 2
    /\ \A e \in Members("g1") : em[e].activeParticleCount > 0
    /\ UploadRange(attributes, "g1", "params").count # -Scale

\* The slots of emitter e the params channel of g1 flags alive.
AliveSlots(e) ==
    {i \in SlotsOf(e) : StrictEq(ChannelParam(attributes, "g1", i, 0), Scale)}

\* C40: the activeParticleCount of every attached emitter that is not static
\* is the number of its slots whose alive flag is 1, after any calls of tick,
\* enable, disable, reset with or without force and the property setters.
C40_ActiveCountMatchesFlags ==
    \A e \in Members("g1") :
        ~em[e].isStatic => em[e].activeParticleCount = Cardinality(AliveSlots(e))

====
